---- MODULE Spec2Model ----
(***************************************************************************)
(* Model of the permission contract (contracts/permission): the allowlist  *)
(* of pre-approved operations per derivation path, the owner-signature     *)
(* checks, the execution gate sign_allowed with its asynchronous signing   *)
(* request and completion callback, and the read-only queries.             *)
(*                                                                         *)
(* Conventions                                                             *)
(*  - Strings are TLA+ strings; format!() is string concatenation.         *)
(*  - Option<T> is a sequence: <<>> is None, <<v>> is Some(v).             *)
(*  - Timestamps are counted in seconds (1 unit = 1_000_000_000 ns of      *)
(*    env::block_timestamp()), so the 60_000_000_000 ns window is 60.      *)
(*  - A handler is an operator from the pre-state and the call's arguments *)
(*    to an outcome [panic, st, promise, ret]; st is the storage as the    *)
(*    handler left it when it returned or panicked. Commit applies the     *)
(*    host's rule: a call that panics commits nothing.                     *)
(*  - AllowedOperation keeps the fields some handler reads or a claim      *)
(*    names; destination_address, destination_chain, slippage_bps and      *)
(*    created_at are stored by add_allowed_operation and read by nothing.  *)
(***************************************************************************)
EXTENDS Integers, Sequences, FiniteSets, Bags, TLC

VARIABLES
    contract,   \* the storage of PermissionContract
    now,        \* env::block_timestamp(), in seconds
    promises,   \* bag of signing requests dispatched and not yet completed
    observed    \* (path, id) pairs for which is_operation_allowed was seen
                \* to answer false on an executed operation

vars == <<contract, now, promises, observed>>

(***************************************************************************)
(* Bounds of the model                                                     *)
(***************************************************************************)
\* add_allowed_operation calls accepted, over all derivation paths
MaxOps == 1
\* how many times the block time advances
NumTicks == 1
\* the largest nonce a register_wallet call carries
MaxNonce == 2

(***************************************************************************)
(* Program constants                                                       *)
(***************************************************************************)
\* 60_000_000_000 ns, validate_price_condition
PriceMaxAge == 60
\* Ed25519 sizes, verify_ed25519_signature
Ed25519SigLen == 64
Ed25519KeyLen == 32
\* verify_evm_signature
EvmSigLen == 65
\* parse_evm_address
EvmAddrHexLen == 40
EvmAddrLen == 20
\* the signature length the host's ecrecover takes
EcrecoverSigLen == 64

\* seconds between two block times of the model: more than the price window
TickLen == PriceMaxAge + 10

None == <<>>
Some(v) == <<v>>
IsSome(o) == o # <<>>
Unwrap(o) == o[1]

(***************************************************************************)
(* Accounts                                                                *)
(***************************************************************************)
OwnerAccount == "owner.near"
RelayerAccount == "relayer.near"
StrangerAccount == "stranger.near"
ContractAccount == "permission.near"
MpcAccount == "mpc.near"
OtherMpcAccount == "v2.mpc.near"
\* who calls the owner-only entrypoints, and who the relayer-only ones
AdminCallers == {OwnerAccount, RelayerAccount}
Callers == {RelayerAccount, StrangerAccount}

(***************************************************************************)
(* Strings                                                                 *)
(***************************************************************************)
Char(s, i) == SubSeq(s, i, i)

\* format!("{}:{}", a, b): the active-index key and the nonce key
ColonKey(a, b) == a \o ":" \o b

\* format!("{}-{}", derivation_path, next_nonce)
OperationId(path, n) == path \o "-" \o ToString(n)

\* format!("Register wallet for derivation path: {} with nonce: {}", ..)
ExpectedRegisterMessage(path, nonce) ==
    "Register wallet for derivation path: " \o path
        \o " with nonce: " \o ToString(nonce)

(***************************************************************************)
(* Signature verification (signature.rs)                                   *)
(*                                                                         *)
(* A signature is [key, digest, len, v, recid]: the secret key that made   *)
(* it, the bytes it was made over, its length in bytes and, for a 65-byte  *)
(* secp256k1 signature, the last byte v and the recovery id that recovers  *)
(* the signer's key. A public key is [key, len]. Signatures are            *)
(* unforgeable: a verifier accepts only when the signature was made by the *)
(* key it checks over the bytes it checks.                                 *)
(***************************************************************************)
\* env::sha256 and env::keccak256: injective, with disjoint images
sha256(m) == "sha256(" \o m \o ")"
keccak256(m) == "keccak256(" \o m \o ")"

\* env::ed25519_verify(&sig, message, &pk)
ed25519_verify(sig, message, pk) ==
    sig.key = pk.key /\ sig.digest = message

\* a verifier that does not look at the lengths
verify_ed25519_signature_unchecked(public_key, message, signature) ==
    ed25519_verify(signature, message, public_key)

verify_ed25519_signature(public_key, message, signature) ==
    IF signature.len # Ed25519SigLen \/ public_key.len # Ed25519KeyLen
    THEN FALSE
    ELSE ed25519_verify(signature, message, public_key)

verify_near_signature(public_key, message, signature) ==
    verify_ed25519_signature(public_key, sha256(message), signature)

verify_solana_signature(public_key, message, signature) ==
    verify_ed25519_signature(public_key, message, signature)

HexDigits == <<"0", "1", "2", "3", "4", "5", "6", "7", "8", "9",
               "a", "b", "c", "d", "e", "f">>
UpperHexDigits == <<"0", "1", "2", "3", "4", "5", "6", "7", "8", "9",
                    "A", "B", "C", "D", "E", "F">>

\* the value of one hex character, -1 when it is none (hex::decode's error)
HexVal(c) ==
    IF \E i \in 1..16 : HexDigits[i] = c
    THEN (CHOOSE i \in 1..16 : HexDigits[i] = c) - 1
    ELSE IF \E i \in 1..16 : UpperHexDigits[i] = c
    THEN (CHOOSE i \in 1..16 : UpperHexDigits[i] = c) - 1
    ELSE -1

\* hex::decode: None on an odd length or a character that is no hex digit
HexDecode(s) ==
    IF Len(s) % 2 # 0 \/ \E i \in 1..Len(s) : HexVal(Char(s, i)) < 0
    THEN None
    ELSE Some([i \in 1..(Len(s) \div 2) |->
                 16 * HexVal(Char(s, 2 * i - 1)) + HexVal(Char(s, 2 * i))])

\* address.strip_prefix("0x").unwrap_or(address)
StripPrefix0x(address) ==
    IF Len(address) >= 2 /\ SubSeq(address, 1, 2) = "0x"
    THEN SubSeq(address, 3, Len(address))
    ELSE address

parse_evm_address(address) ==
    LET addr_str == StripPrefix0x(address)
    IN  IF Len(addr_str) # EvmAddrHexLen
        THEN None
        ELSE LET bytes == HexDecode(addr_str)
             IN  IF bytes = None THEN None
                 ELSE IF Len(Unwrap(bytes)) # EvmAddrLen THEN None
                 ELSE bytes

create_eth_signed_message(message) ==
    "[0x19]Ethereum Signed Message:\n" \o ToString(Len(message)) \o message

(***************************************************************************)
(* Keys of the model                                                       *)
(***************************************************************************)
KeyNear == "kNear"
KeySolana == "kSolana"
KeyEvm == "kEvm"
KeyAttacker == "kAttacker"

PublicKey(k) == [key |-> k, len |-> Ed25519KeyLen]
NoPublicKey == [key |-> "", len |-> 0]

EvmAddressString == "0x742d35Cc6634C0532925a3b844Bc9e7595f2bD20"
OtherEvmAddressString == "0x00000000000000000000000000000000000000ff"

\* the last 20 bytes of keccak256 of a secp256k1 public key
AddressOfKey(k) ==
    IF k = KeyEvm THEN Unwrap(parse_evm_address(EvmAddressString))
    ELSE Unwrap(parse_evm_address(OtherEvmAddressString))

\* env::ecrecover(&message_hash, signature, recovery_id, true): the host
\* aborts the call unless it is given a 64-byte signature and a recovery
\* id below 4; otherwise it recovers the signer's key, or some unrelated
\* key when the hash or the recovery id is not the signature's.
ecrecover(hash, signature, recovery_id) ==
    IF signature.len # EcrecoverSigLen \/ recovery_id >= 4
    THEN [abort |-> TRUE, key |-> None]
    ELSE IF signature.digest = hash /\ signature.recid = recovery_id
    THEN [abort |-> FALSE, key |-> Some(signature.key)]
    ELSE [abort |-> FALSE, key |-> Some(KeyAttacker)]

\* the arguments verify_evm_signature gives env::ecrecover: the hash, the
\* signature slice as it received it, and the recovery id made of its
\* last byte
EcrecoverCall(message_hash, signature) ==
    LET v == signature.v
        recovery_id == IF v >= 27 THEN v - 27 ELSE v
    IN  [hash |-> message_hash, signature |-> signature, v |-> recovery_id]

\* [abort, ok]: abort when the host call aborts, ok the verifier's answer
verify_evm_signature(address, message, signature) ==
    IF signature.len # EvmSigLen
    THEN [abort |-> FALSE, ok |-> FALSE]
    ELSE LET expected_address == parse_evm_address(address)
         IN  IF expected_address = None
             THEN [abort |-> FALSE, ok |-> FALSE]
             ELSE LET prefixed_message == create_eth_signed_message(message)
                      message_hash == keccak256(prefixed_message)
                      call == EcrecoverCall(message_hash, signature)
                      recovered == ecrecover(call.hash, call.signature,
                                             call.v)
                  IN  IF recovered.abort
                      THEN [abort |-> TRUE, ok |-> FALSE]
                      ELSE IF recovered.key = None
                      THEN [abort |-> FALSE, ok |-> FALSE]
                      ELSE [abort |-> FALSE,
                            ok |-> AddressOfKey(Unwrap(recovered.key))
                                     = Unwrap(expected_address)]

(***************************************************************************)
(* Collections                                                             *)
(***************************************************************************)
EmptyMap == [x \in {} |-> 0]
MapPut(f, k, v) == [x \in (DOMAIN f) \cup {k} |-> IF x = k THEN v ELSE f[x]]
\* a remove that leaves the entry in the map
MapRemoveKept(f, k) == f
\* UnorderedMap::remove
MapRemove(f, k) == [x \in (DOMAIN f) \ {k} |-> f[x]]
\* LookupMap::get, UnorderedMap::get
MapGet(f, k) == IF k \in DOMAIN f THEN Some(f[k]) ELSE None

Range(seq) == {seq[i] : i \in 1..Len(seq)}
IndexOf(seq, e) == CHOOSE i \in 1..Len(seq) : seq[i] = e

\* UnorderedSet::insert: a new element goes to the end of the element vector
SetInsert(seq, e) == IF e \in Range(seq) THEN seq ELSE Append(seq, e)

\* UnorderedSet::remove: swap_remove, the last element takes the freed place
SetRemove(seq, e) ==
    IF e \notin Range(seq) THEN seq
    ELSE LET i == IndexOf(seq, e)
             n == Len(seq)
         IN  [j \in 1..(n - 1) |-> IF j = i THEN seq[n] ELSE seq[j]]

(***************************************************************************)
(* Outcomes of a call                                                      *)
(***************************************************************************)
Panic(s) == [panic |-> TRUE, st |-> s, promise |-> None, ret |-> None]
Return(s, promise, ret) ==
    [panic |-> FALSE, st |-> s, promise |-> promise, ret |-> ret]

\* What the host commits of a call that started in storage pre: all of it
\* when the call returns, nothing (no write, no promise) when it panics.
Commit(pre, out) ==
    IF out.panic
    THEN [ok |-> FALSE, st |-> pre, promise |-> None]
    ELSE [ok |-> TRUE, st |-> out.st, promise |-> out.promise]

Context(caller, time) == [predecessor |-> caller, block_timestamp |-> time]

(***************************************************************************)
(* PermissionContract                                                      *)
(***************************************************************************)
\* PermissionContract::new
new(owner, mpc_contract) ==
    [owner |-> owner,
     permissions |-> EmptyMap,
     wallet_to_path |-> EmptyMap,
     tee_relayers |-> {},
     mpc_contract |-> mpc_contract,
     active_operations |-> <<>>,
     used_nonces |-> {}]

\* TRUE when the assertion holds
assert_owner(s, ctx) == ctx.predecessor = s.owner

\* an entrypoint that lets every caller in
assert_tee_relayer_skipped(s, ctx) == TRUE

assert_tee_relayer(s, ctx) == ctx.predecessor \in s.tee_relayers

register_tee_relayer(s, ctx, relayer_account) ==
    IF ~assert_owner(s, ctx) THEN Panic(s)
    ELSE Return([s EXCEPT !.tee_relayers = @ \cup {relayer_account}],
                None, None)

remove_tee_relayer(s, ctx, relayer_account) ==
    IF ~assert_owner(s, ctx) THEN Panic(s)
    ELSE Return([s EXCEPT !.tee_relayers = @ \ {relayer_account}],
                None, None)

update_mpc_contract(s, ctx, mpc_contract) ==
    IF ~assert_owner(s, ctx) THEN Panic(s)
    ELSE Return([s EXCEPT !.mpc_contract = mpc_contract], None, None)

\* [abort, ok], see verify_evm_signature
verify_user_signature(wallet_type, public_key, chain_address, message, signature) ==
    CASE wallet_type = "Near" ->
           [abort |-> FALSE,
            ok |-> verify_near_signature(public_key, message, signature)]
      [] wallet_type = "Solana" ->
           [abort |-> FALSE,
            ok |-> verify_solana_signature(public_key, message, signature)]
      [] wallet_type = "Evm" ->
           verify_evm_signature(chain_address, message, signature)

\* a register_wallet that does not look the (address, nonce) pair up
NonceUsedIgnored(s, nonce_key) == FALSE

\* self.used_nonces.contains_key(&nonce_key)
NonceUsed(s, nonce_key) == nonce_key \in s.used_nonces

\* a register_wallet that takes any signed message
MessageMatchesAny(message, derivation_path, nonce) == TRUE

\* message == expected_msg.as_bytes()
MessageMatches(message, derivation_path, nonce) ==
    message = ExpectedRegisterMessage(derivation_path, nonce)

\* a reverse index that keeps the first identity key of an address
MapWalletToPathOnce(map, chain_address, derivation_path) ==
    IF chain_address \in DOMAIN map THEN map
    ELSE MapPut(map, chain_address, derivation_path)

\* self.wallet_to_path.insert(&chain_address, &derivation_path)
MapWalletToPath(map, chain_address, derivation_path) ==
    MapPut(map, chain_address, derivation_path)

register_wallet(s, ctx, derivation_path, wallet_type, public_key, chain_address, signature, message, nonce) ==
    IF ~assert_tee_relayer(s, ctx) THEN Panic(s)
    ELSE
    LET nonce_key == ColonKey(chain_address, ToString(nonce))
    IN  IF NonceUsed(s, nonce_key) THEN Panic(s)
        ELSE
        LET s1 == [s EXCEPT !.used_nonces = @ \cup {nonce_key}]
            is_valid == verify_user_signature(wallet_type, public_key,
                                              chain_address, message,
                                              signature)
        IN  IF is_valid.abort \/ ~is_valid.ok THEN Panic(s1)
            ELSE IF ~MessageMatches(message, derivation_path, nonce)
            THEN Panic(s1)
            ELSE
            LET registered_wallet ==
                    [wallet_type |-> wallet_type,
                     public_key |-> public_key,
                     chain_address |-> chain_address]
                found == MapGet(s1.permissions, derivation_path)
                perms ==
                    IF IsSome(found)
                    THEN LET old == Unwrap(found)
                         IN  IF \E i \in 1..Len(old.owner_wallets) :
                                    old.owner_wallets[i].chain_address
                                        = chain_address
                             THEN old
                             ELSE [old EXCEPT !.owner_wallets =
                                       Append(@, registered_wallet)]
                    ELSE [owner_wallets |-> <<registered_wallet>>,
                          allowed_operations |-> EmptyMap,
                          next_nonce |-> 1]
                s2 == [s1 EXCEPT
                         !.permissions =
                             MapPut(@, derivation_path, perms),
                         !.wallet_to_path =
                             MapWalletToPath(@, chain_address,
                                             derivation_path)]
            IN  Return(s2, None, None)

\* a lookup that takes the first registered wallet whatever the address
FindWalletAny(owner_wallets, signer_address) ==
    IF owner_wallets = <<>> THEN None ELSE Some(owner_wallets[1])

\* perms.owner_wallets.iter().find(|w| w.chain_address == signer_address)
FindWallet(owner_wallets, signer_address) ==
    LET hits == {i \in 1..Len(owner_wallets) :
                    owner_wallets[i].chain_address = signer_address}
    IN  IF hits = {} THEN None
        ELSE Some(owner_wallets[CHOOSE i \in hits : \A j \in hits : i <= j])

\* an add_allowed_operation that does not advance the nonce
NextNonceSame(next_nonce) == next_nonce

\* perms.next_nonce += 1
NextNonce(next_nonce) == next_nonce + 1

add_allowed_operation(s, ctx, derivation_path, operation, signature, message, signer_address) ==
    IF ~assert_tee_relayer(s, ctx) THEN Panic(s)
    ELSE
    LET found == MapGet(s.permissions, derivation_path)
    IN  IF found = None THEN Panic(s)
        ELSE
        LET perms == Unwrap(found)
            signer_wallet == FindWallet(perms.owner_wallets, signer_address)
        IN  IF signer_wallet = None THEN Panic(s)
            ELSE
            LET w == Unwrap(signer_wallet)
                is_valid == verify_user_signature(w.wallet_type,
                                                  w.public_key,
                                                  signer_address, message,
                                                  signature)
            IN  IF is_valid.abort \/ ~is_valid.ok THEN Panic(s)
                ELSE
                LET operation_id ==
                        OperationId(derivation_path, perms.next_nonce)
                    next_nonce == NextNonce(perms.next_nonce)
                    allowed_op ==
                        [operation_id |-> operation_id,
                         derivation_path |-> derivation_path,
                         operation_type |-> operation.operation_type,
                         expires_at |-> operation.expires_at,
                         executed |-> FALSE,
                         nonce |-> next_nonce - 1]
                    perms1 == [perms EXCEPT
                                 !.next_nonce = next_nonce,
                                 !.allowed_operations =
                                     MapPut(@, operation_id, allowed_op)]
                    active_key == ColonKey(derivation_path, operation_id)
                    s1 == [s EXCEPT
                             !.permissions =
                                 MapPut(@, derivation_path, perms1),
                             !.active_operations =
                                 SetInsert(@, active_key)]
                IN  Return(s1, None, Some(operation_id))

remove_allowed_operation(s, ctx, derivation_path, operation_id, signature, message, signer_address) ==
    IF ~assert_tee_relayer(s, ctx) THEN Panic(s)
    ELSE
    LET found == MapGet(s.permissions, derivation_path)
    IN  IF found = None THEN Panic(s)
        ELSE
        LET perms == Unwrap(found)
            signer_wallet == FindWallet(perms.owner_wallets, signer_address)
        IN  IF signer_wallet = None THEN Panic(s)
            ELSE
            LET w == Unwrap(signer_wallet)
                is_valid == verify_user_signature(w.wallet_type,
                                                  w.public_key,
                                                  signer_address, message,
                                                  signature)
            IN  IF is_valid.abort \/ ~is_valid.ok THEN Panic(s)
                ELSE
                LET perms1 == [perms EXCEPT
                                 !.allowed_operations =
                                     MapRemove(@, operation_id)]
                    active_key == ColonKey(derivation_path, operation_id)
                    s1 == [s EXCEPT
                             !.permissions =
                                 MapPut(@, derivation_path, perms1),
                             !.active_operations =
                                 SetRemove(@, active_key)]
                IN  Return(s1, None, None)

\* a check whose comparisons reject a price equal to the trigger
validate_price_condition_strict(operation, current_price, timestamp, ctx) ==
    LET nowts == ctx.block_timestamp
        stale == /\ IsSome(timestamp)
                 /\ nowts > Unwrap(timestamp)
                 /\ nowts - Unwrap(timestamp) > PriceMaxAge
        ot == operation.operation_type
    IN  IF stale THEN Some("Price timestamp too old")
        ELSE
        CASE ot.type = "LimitOrder" ->
               IF ot.condition = "Above"
               THEN IF current_price <= ot.trigger_price
                    THEN Some("Price condition not met: price below trigger")
                    ELSE None
               ELSE IF current_price >= ot.trigger_price
                    THEN Some("Price condition not met: price above trigger")
                    ELSE None
          [] ot.type = "StopLoss" ->
               IF current_price >= ot.trigger_price
               THEN Some("Stop-loss condition not met: price above trigger")
               ELSE None
          [] ot.type = "TakeProfit" ->
               IF current_price <= ot.trigger_price
               THEN Some("Take-profit condition not met: price below trigger")
               ELSE None
          [] ot.type = "Swap" -> None

\* Ok(()) is None, Err(e) is Some(e)
validate_price_condition(operation, current_price, timestamp, ctx) ==
    LET nowts == ctx.block_timestamp
        stale == /\ IsSome(timestamp)
                 /\ nowts > Unwrap(timestamp)
                 /\ nowts - Unwrap(timestamp) > PriceMaxAge
        ot == operation.operation_type
    IN  IF stale THEN Some("Price timestamp too old")
        ELSE CASE ot.type = "LimitOrder" ->
                    IF ot.condition = "Above"
                    THEN IF current_price < ot.trigger_price
                         THEN Some("Price condition not met: price below trigger")
                         ELSE None
                    ELSE IF current_price > ot.trigger_price
                         THEN Some("Price condition not met: price above trigger")
                         ELSE None
               [] ot.type = "StopLoss" ->
                    IF current_price > ot.trigger_price
                    THEN Some("Stop-loss condition not met: price above trigger")
                    ELSE None
               [] ot.type = "TakeProfit" ->
                    IF current_price < ot.trigger_price
                    THEN Some("Take-profit condition not met: price below trigger")
                    ELSE None
               [] ot.type = "Swap" -> None

RECURSIVE HexEncode(_)
\* hex::encode
HexEncode(bytes) ==
    IF bytes = <<>> THEN ""
    ELSE HexDigits[(Head(bytes) \div 16) + 1]
             \o HexDigits[(Head(bytes) % 16) + 1]
             \o HexEncode(Tail(bytes))

\* a sign_allowed that does not look at the executed flag
AlreadyExecutedIgnored(operation) == FALSE

\* assert!(!operation.executed, ..) fails
AlreadyExecuted(operation) == operation.executed

\* a sign_allowed that still accepts at the expiry time itself
HasExpiredAfter(operation, ctx) ==
    /\ IsSome(operation.expires_at)
    /\ ctx.block_timestamp > Unwrap(operation.expires_at)

\* a sign_allowed that dispatches without marking the operation
MarkExecutedSkipped(operation) == operation

\* the expiry assertion fails: expires_at is set and
\* env::block_timestamp() < expires does not hold
HasExpired(operation, ctx) ==
    /\ IsSome(operation.expires_at)
    /\ ~(ctx.block_timestamp < Unwrap(operation.expires_at))

\* operation.executed = true
MarkExecuted(operation) == [operation EXCEPT !.executed = TRUE]

\* a request that carries the other scheme's selector
DomainIdSwapped(key_type) == IF key_type = "Eddsa" THEN 0 ELSE 1

\* "Eddsa" => 1u8, "Ecdsa" => 0u8
DomainId(key_type) == IF key_type = "Eddsa" THEN 1 ELSE 0

sign_allowed(s, ctx, derivation_path, operation_id, payload, key_type, tee_price, tee_timestamp) ==
    IF ~assert_tee_relayer(s, ctx) THEN Panic(s)
    ELSE
    LET found == MapGet(s.permissions, derivation_path)
    IN  IF found = None THEN Panic(s)
        ELSE
        LET perms == Unwrap(found)
            foundop == MapGet(perms.allowed_operations, operation_id)
        IN  IF foundop = None THEN Panic(s)
            ELSE
            LET operation == Unwrap(foundop)
            IN  IF AlreadyExecuted(operation) THEN Panic(s)
                ELSE IF HasExpired(operation, ctx) THEN Panic(s)
                ELSE IF /\ IsSome(tee_price)
                        /\ IsSome(validate_price_condition(
                                      operation, Unwrap(tee_price),
                                      tee_timestamp, ctx))
                THEN Panic(s)
                ELSE
                LET operation1 == MarkExecuted(operation)
                    perms1 == [perms EXCEPT
                                 !.allowed_operations =
                                     MapPut(@, operation_id, operation1)]
                    active_key == ColonKey(derivation_path, operation_id)
                    s1 == [s EXCEPT
                             !.permissions =
                                 MapPut(@, derivation_path, perms1),
                             !.active_operations =
                                 SetRemove(@, active_key)]
                IN  IF key_type \notin {"Eddsa", "Ecdsa"} THEN Panic(s1)
                    ELSE
                    LET domain_id == DomainId(key_type)
                        payload_hex == HexEncode(payload)
                        payload_v2 ==
                            IF key_type = "Eddsa"
                            THEN [eddsa |-> Some(payload_hex),
                                  ecdsa |-> None]
                            ELSE [eddsa |-> None,
                                  ecdsa |-> Some(payload_hex)]
                        sign_request ==
                            [payload_v2 |-> payload_v2,
                             path |-> derivation_path,
                             domain_id |-> domain_id]
                        promise ==
                            [receiver |-> s1.mpc_contract,
                             request |-> sign_request,
                             derivation_path |-> derivation_path,
                             operation_id |-> operation_id]
                    IN  Return(s1, Some(promise), None)

\* a callback that any account may call
PrivateCallSkipped(ctx) == TRUE

\* #[private]: the caller is the contract itself
PrivateCall(ctx) == ctx.predecessor = ContractAccount

\* result: [ok |-> TRUE, value |-> signature bytes] or [ok |-> FALSE]
on_mpc_sign_complete(s, ctx, derivation_path, operation_id, result) ==
    IF ~PrivateCall(ctx) THEN Panic(s)
    ELSE IF result.ok THEN Return(s, None, Some(result.value))
    ELSE
    LET found == MapGet(s.permissions, derivation_path)
        foundop == IF found = None THEN None
                   ELSE MapGet(Unwrap(found).allowed_operations,
                               operation_id)
    IN  IF foundop = None THEN Panic(s)
        ELSE
        LET perms == Unwrap(found)
            operation1 == [Unwrap(foundop) EXCEPT !.executed = FALSE]
            perms1 == [perms EXCEPT
                         !.allowed_operations =
                             MapPut(@, operation_id, operation1)]
            active_key == ColonKey(derivation_path, operation_id)
            s1 == [s EXCEPT
                     !.permissions = MapPut(@, derivation_path, perms1),
                     !.active_operations = SetInsert(@, active_key)]
        IN  Panic(s1)

(***************************************************************************)
(* Queries                                                                 *)
(***************************************************************************)
get_operation(s, derivation_path, operation_id) ==
    LET found == MapGet(s.permissions, derivation_path)
    IN  IF found = None THEN None
        ELSE MapGet(Unwrap(found).allowed_operations, operation_id)

\* an is_operation_allowed that still answers true at the expiry time itself
is_operation_allowed_after(s, ctx, derivation_path, operation_id) ==
    LET foundop == get_operation(s, derivation_path, operation_id)
    IN  IF foundop = None THEN FALSE
        ELSE LET op == Unwrap(foundop)
             IN  IF op.executed THEN FALSE
                 ELSE IF /\ IsSome(op.expires_at)
                         /\ ctx.block_timestamp > Unwrap(op.expires_at)
                 THEN FALSE
                 ELSE TRUE

is_operation_allowed(s, ctx, derivation_path, operation_id) ==
    LET found == MapGet(s.permissions, derivation_path)
    IN  IF found = None THEN FALSE
        ELSE LET foundop == MapGet(Unwrap(found).allowed_operations,
                                   operation_id)
             IN  IF foundop = None THEN FALSE
                 ELSE LET op == Unwrap(foundop)
                      IN  IF op.executed THEN FALSE
                          ELSE IF /\ IsSome(op.expires_at)
                                  /\ ctx.block_timestamp
                                         >= Unwrap(op.expires_at)
                          THEN FALSE
                          ELSE TRUE

\* key.split(':'): None when the key has no ':' (parts.len() < 2), else
\* <<parts[0], parts[1..].join(":")>>, the text before and after the first
\* ':'
SplitKey(key) ==
    LET colons == {i \in 1..Len(key) : Char(key, i) = ":"}
    IN  IF colons = {} THEN None
        ELSE LET i == CHOOSE c \in colons : \A d \in colons : c <= d
             IN  Some(<<SubSeq(key, 1, i - 1), SubSeq(key, i + 1, Len(key))>>)

RECURSIVE CollectActive(_, _)
\* the loop of get_active_operations over the keys of the page
CollectActive(s, keys) ==
    IF keys = <<>> THEN <<>>
    ELSE LET parts == SplitKey(Head(keys))
             op == IF parts = None THEN None
                   ELSE get_operation(s, Unwrap(parts)[1], Unwrap(parts)[2])
             rest == CollectActive(s, Tail(keys))
         IN  IF op = None THEN rest
             ELSE <<<<Unwrap(parts)[1], Unwrap(op)>>>> \o rest

\* keys.iter().skip(from_index).take(limit)
Page(keys, from_index, limit) ==
    SubSeq(keys, from_index + 1,
           IF from_index + limit < Len(keys) THEN from_index + limit
           ELSE Len(keys))

\* A u64 is [hi, lo], its upper and lower 32 bits. The contract is built
\* for wasm32, where usize has 32 bits and `as usize` keeps the lower 32.
U64(n) == [hi |-> 0, lo |-> n]
AsUsize(x) == x.lo

get_active_operations(s, from_index, limit) ==
    CollectActive(s, Page(s.active_operations, AsUsize(from_index),
                          AsUsize(limit)))

RECURSIVE ValuesOf(_)
\* UnorderedMap::values().collect(), in an order no caller relies on
ValuesOf(map) ==
    IF DOMAIN map = {} THEN <<>>
    ELSE LET k == CHOOSE x \in DOMAIN map : TRUE
         IN  <<map[k]>> \o ValuesOf([x \in DOMAIN map \ {k} |-> map[x]])

get_operations(s, derivation_path) ==
    LET found == MapGet(s.permissions, derivation_path)
    IN  IF found = None THEN <<>>
        ELSE ValuesOf(Unwrap(found).allowed_operations)

get_path_for_wallet(s, chain_address) == MapGet(s.wallet_to_path, chain_address)

is_tee_relayer(s, account) == account \in s.tee_relayers

(***************************************************************************)
(* Inputs of the model                                                     *)
(***************************************************************************)
Paths == {"a", "a:a"}

NearWallet ==
    [wallet_type |-> "Near", public_key |-> PublicKey(KeyNear),
     chain_address |-> "alice.near"]
SolanaWallet ==
    [wallet_type |-> "Solana", public_key |-> PublicKey(KeySolana),
     chain_address |-> "SoLAddr1"]
EvmWallet ==
    [wallet_type |-> "Evm", public_key |-> NoPublicKey,
     chain_address |-> EvmAddressString]
Wallets == {NearWallet, SolanaWallet, EvmWallet}
Addresses == {w.chain_address : w \in Wallets}

\* what a wallet's owner does off-chain: sign a message in the wallet's scheme
Signature(k, digest, len, v) ==
    [key |-> k, digest |-> digest, len |-> len, v |-> v, recid |-> 0]
SignAs(wallet, message) ==
    CASE wallet.wallet_type = "Near" ->
           Signature(KeyNear, sha256(message), Ed25519SigLen, 0)
      [] wallet.wallet_type = "Solana" ->
           Signature(KeySolana, message, Ed25519SigLen, 0)
      [] wallet.wallet_type = "Evm" ->
           Signature(KeyEvm, keccak256(create_eth_signed_message(message)),
                     EvmSigLen, 27)
\* a signature the relayer makes with a key of its own
Forged(message) == Signature(KeyAttacker, message, Ed25519SigLen, 0)

SwapOp ==
    [operation_type |-> [type |-> "Swap"], expires_at |-> None]
StopLossOp ==
    [operation_type |-> [type |-> "StopLoss", trigger_price |-> 50],
     expires_at |-> Some(TickLen)]
TakeProfitOp ==
    [operation_type |-> [type |-> "TakeProfit", trigger_price |-> 50],
     expires_at |-> None]
LimitAboveOp ==
    [operation_type |-> [type |-> "LimitOrder", trigger_price |-> 50,
                         condition |-> "Above"],
     expires_at |-> None]
LimitBelowOp ==
    [operation_type |-> [type |-> "LimitOrder", trigger_price |-> 50,
                         condition |-> "Below"],
     expires_at |-> None]
OpInputs == {SwapOp, StopLossOp}
AllOperationTypes ==
    {SwapOp, StopLossOp, TakeProfitOp, LimitAboveOp, LimitBelowOp}

\* The message by which an owner approves one operation for one path. The
\* contract prescribes no format for it; this is the client's, and it names
\* the operation's type, trigger and expiry and the path.
ApprovalMessage(path, operation) ==
    LET ot == operation.operation_type
    IN  "Allow " \o ot.type
          \o (IF ot.type = "Swap" THEN ""
              ELSE " at " \o ToString(ot.trigger_price))
          \o (IF ot.type = "LimitOrder" THEN " " \o ot.condition ELSE "")
          \o (IF IsSome(operation.expires_at)
              THEN " until " \o ToString(Unwrap(operation.expires_at))
              ELSE "")
          \o " on derivation path: " \o path

\* Every (wallet, message) the owners have signed: one registration each,
\* and one approval each.
OwnerSigned ==
    {<<NearWallet, ExpectedRegisterMessage("a", 1)>>,
     <<SolanaWallet, ExpectedRegisterMessage("a:a", 1)>>,
     <<EvmWallet, ExpectedRegisterMessage("a", 1)>>,
     <<NearWallet, ApprovalMessage("a", SwapOp)>>,
     <<SolanaWallet, ApprovalMessage("a:a", StopLossOp)>>}

\* a (message, signature) pair a relayer holds, presented with an address
Proof(wallet, message, signer) ==
    [message |-> message, signature |-> SignAs(wallet, message),
     signer |-> signer]

\* The proofs presented to add_allowed_operation and
\* remove_allowed_operation: each owner's approval and the Near owner's
\* registration proof under the owner's address, an approval under another
\* wallet's address, the EVM owner's registration proof, and a signature the
\* relayer made itself.
Proofs ==
    {Proof(NearWallet, ApprovalMessage("a", SwapOp), "alice.near"),
     Proof(NearWallet, ExpectedRegisterMessage("a", 1), "alice.near"),
     Proof(SolanaWallet, ApprovalMessage("a:a", StopLossOp), "SoLAddr1"),
     Proof(NearWallet, ApprovalMessage("a", SwapOp), "SoLAddr1"),
     Proof(EvmWallet, ExpectedRegisterMessage("a", 1), EvmAddressString),
     [message |-> ApprovalMessage("a", StopLossOp),
      signature |-> Forged(sha256(ApprovalMessage("a", StopLossOp))),
      signer |-> "alice.near"]}

\* register_wallet calls: each signed registration with its wallet, and one
\* presenting a registration proof for another path than the one it names
RegistrationCalls ==
    {[derivation_path |-> "a", wallet |-> NearWallet, nonce |-> 1,
      message |-> ExpectedRegisterMessage("a", 1)],
     [derivation_path |-> "a:a", wallet |-> SolanaWallet, nonce |-> 1,
      message |-> ExpectedRegisterMessage("a:a", 1)],
     [derivation_path |-> "a", wallet |-> EvmWallet, nonce |-> 1,
      message |-> ExpectedRegisterMessage("a", 1)],
     [derivation_path |-> "a", wallet |-> SolanaWallet, nonce |-> 1,
      message |-> ExpectedRegisterMessage("a:a", 1)]}

Times == {i * TickLen : i \in 0..NumTicks}

ActiveKeys ==
    {ColonKey(p, OperationId(p, n)) : p \in Paths, n \in 1..MaxOps}

\* operation ids a caller may name: for every key of the index and every
\* path, the id that makes format!("{}:{}", path, id) that key
OpIdInputs ==
    {SubSeq(k, Len(p) + 2, Len(k)) :
        <<k, p>> \in {x \in ActiveKeys \X Paths :
                        /\ Len(x[1]) > Len(x[2]) + 1
                        /\ SubSeq(x[1], 1, Len(x[2]) + 1) = x[2] \o ":"}}

PayloadInput == <<171, 1>>
KeyTypes == {"Eddsa", "Ecdsa", "Rsa"}
LastTime == NumTicks * TickLen

\* (key_type, tee_price, tee_timestamp) of the sign_allowed calls: no price
\* under each key type, and under "Eddsa" a price below and above the
\* triggers with the earliest timestamp, and a price below them with no
\* timestamp and with the latest one
SignArgs ==
    {<<k, None, None>> : k \in KeyTypes}
    \cup {<<"Eddsa", Some(40), Some(0)>>,
          <<"Eddsa", Some(60), Some(0)>>,
          <<"Eddsa", Some(40), None>>,
          <<"Eddsa", Some(40), Some(LastTime)>>}
SignResults == {[ok |-> TRUE, value |-> "mpc-signature"], [ok |-> FALSE]}

(***************************************************************************)
(* The state machine                                                       *)
(***************************************************************************)
Init ==
    /\ contract = new(OwnerAccount, MpcAccount)
    /\ now = 0
    /\ promises = EmptyBag
    /\ observed = {}

\* A call's committed effect on the storage and the pending promises. A
\* call that panics commits nothing: it is a stuttering step.
Apply(out) ==
    LET c == Commit(contract, out)
    IN  /\ c.ok
        /\ contract' = c.st
        /\ promises' = IF IsSome(c.promise)
                       THEN promises (+) SetToBag({Unwrap(c.promise)})
                       ELSE promises

RegisterTeeRelayer ==
    \E caller \in AdminCallers :
        /\ Apply(register_tee_relayer(contract, Context(caller, now),
                                      RelayerAccount))
        /\ UNCHANGED <<now, observed>>

RemoveTeeRelayer ==
    \E caller \in AdminCallers :
        /\ Apply(remove_tee_relayer(contract, Context(caller, now),
                                    RelayerAccount))
        /\ UNCHANGED <<now, observed>>

UpdateMpcContract ==
    \E caller \in AdminCallers, mpc \in {MpcAccount, OtherMpcAccount} :
        /\ Apply(update_mpc_contract(contract, Context(caller, now), mpc))
        /\ UNCHANGED <<now, observed>>

RegisterWallet ==
    \E caller \in Callers, r \in RegistrationCalls :
        /\ Apply(register_wallet(contract, Context(caller, now),
                                 r.derivation_path, r.wallet.wallet_type,
                                 r.wallet.public_key, r.wallet.chain_address,
                                 SignAs(r.wallet, r.message), r.message,
                                 r.nonce))
        /\ UNCHANGED <<now, observed>>

\* operation ids issued so far, over all derivation paths
Issued(s) ==
    LET paths == DOMAIN s.permissions
        RECURSIVE Sum(_)
        Sum(ps) == IF ps = {} THEN 0
                   ELSE LET p == CHOOSE x \in ps : TRUE
                        IN  (s.permissions[p].next_nonce - 1)
                                + Sum(ps \ {p})
    IN  Sum(paths)

\* at most MaxOps operations are added
AddAllowedOperation ==
    \E caller \in Callers, path \in Paths, operation \in OpInputs,
       proof \in Proofs :
        /\ Issued(contract) < MaxOps
        /\ Apply(add_allowed_operation(contract, Context(caller, now), path,
                                       operation, proof.signature,
                                       proof.message, proof.signer))
        /\ UNCHANGED <<now, observed>>

RemoveAllowedOperation ==
    \E caller \in Callers, path \in Paths, id \in OpIdInputs,
       proof \in Proofs :
        /\ Apply(remove_allowed_operation(contract, Context(caller, now),
                                          path, id, proof.signature,
                                          proof.message, proof.signer))
        /\ UNCHANGED <<now, observed>>

SignAllowed ==
    \E caller \in Callers, path \in Paths, id \in OpIdInputs,
       a \in SignArgs :
        /\ Apply(sign_allowed(contract, Context(caller, now), path, id,
                              PayloadInput, a[1], a[2], a[3]))
        /\ UNCHANGED <<now, observed>>

\* the host runs the callback of a completed request, once, as the contract
OnMpcSignComplete ==
    \E pr \in BagToSet(promises), result \in SignResults :
        /\ contract' =
             Commit(contract,
                    on_mpc_sign_complete(contract,
                                         Context(ContractAccount, now),
                                         pr.derivation_path,
                                         pr.operation_id, result)).st
        /\ promises' = promises (-) SetToBag({pr})
        /\ UNCHANGED <<now, observed>>

\* a view call that answers false for an executed operation, which the
\* model notes; every other answer leaves the state as it is
IsOperationAllowed ==
    \E path \in Paths, id \in OpIdInputs :
        LET op == get_operation(contract, path, id)
            answer == is_operation_allowed(contract,
                                           Context(StrangerAccount, now),
                                           path, id)
        IN  /\ ~answer /\ IsSome(op) /\ Unwrap(op).executed
            /\ observed' = observed \cup {<<path, id>>}
            /\ UNCHANGED <<contract, now, promises>>

Tick ==
    /\ now < LastTime
    /\ now' = now + TickLen
    /\ UNCHANGED <<contract, promises, observed>>

Next ==
    \/ RegisterTeeRelayer
    \/ RemoveTeeRelayer
    \/ UpdateMpcContract
    \/ RegisterWallet
    \/ AddAllowedOperation
    \/ RemoveAllowedOperation
    \/ SignAllowed
    \/ OnMpcSignComplete
    \/ IsOperationAllowed
    \/ Tick

Spec == Init /\ [][Next]_vars

\* The contract with the signer's address left as new set it. The address
\* is read by sign_allowed alone, after all its checks, to address the
\* request; add_allowed_operation and remove_allowed_operation never read
\* it.
NextFixedMpc ==
    \/ RegisterTeeRelayer
    \/ RemoveTeeRelayer
    \/ RegisterWallet
    \/ AddAllowedOperation
    \/ RemoveAllowedOperation
    \/ SignAllowed
    \/ OnMpcSignComplete
    \/ IsOperationAllowed
    \/ Tick

SpecFixedMpc == Init /\ [][NextFixedMpc]_vars

\* The entrypoints that write, called within one block. assert_owner and
\* assert_tee_relayer read the caller, the owner and the relayer set, and
\* never the block time; the views write nothing.
NextEntrypoints ==
    \/ RegisterTeeRelayer
    \/ RemoveTeeRelayer
    \/ UpdateMpcContract
    \/ RegisterWallet
    \/ AddAllowedOperation
    \/ RemoveAllowedOperation
    \/ SignAllowed
    \/ OnMpcSignComplete

SpecEntrypoints == Init /\ [][NextEntrypoints]_vars

\* The contract after the owner registered the relayer, the relayer
\* registered alice.near for "a", and alice.near approved one operation,
\* of any of the operation types.
ApprovedState(operation) ==
    LET s0 == new(OwnerAccount, MpcAccount)
        s1 == Commit(s0, register_tee_relayer(s0, Context(OwnerAccount, 0),
                                              RelayerAccount)).st
        m == ExpectedRegisterMessage("a", 1)
        s2 == Commit(s1, register_wallet(s1, Context(RelayerAccount, 0), "a",
                                         NearWallet.wallet_type,
                                         NearWallet.public_key,
                                         NearWallet.chain_address,
                                         SignAs(NearWallet, m), m, 1)).st
        msg == ApprovalMessage("a", operation)
    IN  Commit(s2, add_allowed_operation(s2, Context(RelayerAccount, 0), "a",
                                         operation,
                                         SignAs(NearWallet, msg), msg,
                                         NearWallet.chain_address)).st

InitApproved ==
    /\ \E operation \in AllOperationTypes :
           contract = ApprovedState(operation)
    /\ now = 0
    /\ promises = EmptyBag
    /\ observed = {}

\* the calls on the approved operation
NextApproved ==
    \/ RegisterTeeRelayer
    \/ RemoveTeeRelayer
    \/ RemoveAllowedOperation
    \/ SignAllowed
    \/ OnMpcSignComplete
    \/ IsOperationAllowed
    \/ Tick

SpecApproved == InitApproved /\ [][NextApproved]_vars

(***************************************************************************)
(* Properties                                                              *)
(*                                                                         *)
(* A property about the calls of an entrypoint is stated over the handler  *)
(* applied to the current state: Call is what the host commits of that     *)
(* call. The arguments range over the sets below, which are wider than the *)
(* arguments the actions take.                                             *)
(***************************************************************************)
AllCallers == {OwnerAccount, RelayerAccount, StrangerAccount, ContractAccount}
AllPaths == Paths \cup {"unknown"}
AllOpIds == OpIdInputs \cup {"unknown-1"}
AllOps == AllOperationTypes
\* (tee_price, tee_timestamp): neither, a price below, at and above the
\* triggers with no timestamp, with the earliest and with the latest one,
\* and a timestamp with no price
PriceArgs ==
    {<<None, None>>, <<None, Some(0)>>, <<Some(40), None>>,
     <<Some(40), Some(0)>>, <<Some(50), Some(0)>>, <<Some(60), Some(0)>>,
     <<Some(40), Some(LastTime)>>}
AllSignArgs == {<<k, pa[1], pa[2]>> : k \in KeyTypes, pa \in PriceArgs}
CheckTimes == 0..(LastTime + TickLen)

\* what the host commits of a sign_allowed call made now
SignCall(caller, path, id, a) ==
    Commit(contract,
           sign_allowed(contract, Context(caller, now), path, id,
                        PayloadInput, a[1], a[2], a[3]))

AddCall(caller, path, operation, proof) ==
    Commit(contract,
           add_allowed_operation(contract, Context(caller, now), path,
                                 operation, proof.signature, proof.message,
                                 proof.signer))

RemoveCall(caller, path, id, proof) ==
    Commit(contract,
           remove_allowed_operation(contract, Context(caller, now), path, id,
                                    proof.signature, proof.message,
                                    proof.signer))

\* what the host commits of the completion callback of promise pr
CallbackCall(pr, result) ==
    Commit(contract,
           on_mpc_sign_complete(contract, Context(ContractAccount, now),
                                pr.derivation_path, pr.operation_id, result))

\* the call is rejected: nothing is committed and nothing dispatched
Rejected(c) == LET r == c IN ~r.ok /\ r.promise = None /\ r.st = contract

\* the number of requests in flight for (path, id)
InFlight(path, id) ==
    BagCardinality([pr \in {x \in BagToSet(promises) :
                               /\ x.derivation_path = path
                               /\ x.operation_id = id}
                      |-> CopiesIn(pr, promises)])

\* the ids the contract issues for a path
IssuedIds(path) == {OperationId(path, n) : n \in 1..MaxOps}

KnownPaths == DOMAIN contract.permissions
OperationsOf(path) == contract.permissions[path].allowed_operations
WalletsOf(path) == Range(contract.permissions[path].owner_wallets)
ActiveIndex == Range(contract.active_operations)

\* C1: at most one signing request is in flight for a given (identity key,
\* operation id), and while one is in flight every sign_allowed on that
\* operation id, by any caller and with any arguments, is rejected:
\* nothing is dispatched and the state does not change.
C1_AtMostOneInFlight ==
    \A pr \in BagToSet(promises) :
        /\ InFlight(pr.derivation_path, pr.operation_id) = 1
        /\ \A caller \in AllCallers, a \in AllSignArgs :
               Rejected(SignCall(caller, pr.derivation_path,
                                 pr.operation_id, a))

\* a request is in flight for an operation that is still in the allowlist,
\* and a registered relayer's sign_allowed for it is rejected
C1_Witness ==
    \E pr \in BagToSet(promises) :
        /\ RelayerAccount \in contract.tee_relayers
        /\ IsSome(get_operation(contract, pr.derivation_path,
                                pr.operation_id))
        /\ Rejected(SignCall(RelayerAccount, pr.derivation_path,
                             pr.operation_id, <<"Eddsa", None, None>>))

C3_Compensation ==
    \A pr \in BagToSet(promises) :
        IsSome(get_operation(contract, pr.derivation_path, pr.operation_id))
        => LET c == CallbackCall(pr, [ok |-> FALSE])
               op == get_operation(c.st, pr.derivation_path,
                                   pr.operation_id)
           IN  /\ ~c.ok
               /\ IsSome(op)
               /\ ~Unwrap(op).executed
               /\ ColonKey(pr.derivation_path, pr.operation_id)
                      \in Range(c.st.active_operations)

\* the content of a stored operation, as add_allowed_operation was given it
ContentOf(op) ==
    [operation_type |-> op.operation_type, expires_at |-> op.expires_at]

\* a wallet registered for the path has signed an approval of this content
Approved(path, op) ==
    \E w \in WalletsOf(path) :
        <<w, ApprovalMessage(path, ContentOf(op))>> \in OwnerSigned

\* C4: every operation in an allowlist, and so every operation a request
\* is dispatched for, is one that a wallet registered for that identity
\* approved by signing a message that commits to it.
C4_OnlyApprovedOperations ==
    \A path \in KnownPaths :
        \A id \in DOMAIN OperationsOf(path) :
            Approved(path, OperationsOf(path)[id])

\* the trigger comparison of a conditional operation
TriggerHolds(ot, price) ==
    CASE ot.type = "StopLoss" -> price <= ot.trigger_price
      [] ot.type = "TakeProfit" -> price >= ot.trigger_price
      [] ot.type = "LimitOrder" ->
           IF ot.condition = "Above" THEN price >= ot.trigger_price
           ELSE price <= ot.trigger_price
      [] ot.type = "Swap" -> TRUE

\* C5: every sign_allowed call that marks a conditional operation executed
\* and dispatches a request supplied a price that satisfies the
\* operation's trigger, for every combination of the optional arguments.
C5_TriggerHolds ==
    \A caller \in Callers, path \in Paths, id \in OpIdInputs,
       a \in AllSignArgs :
        LET op == get_operation(contract, path, id)
        IN  (SignCall(caller, path, id, a).ok
               /\ Unwrap(op).operation_type.type # "Swap")
            => /\ IsSome(a[2])
               /\ TriggerHolds(Unwrap(op).operation_type, Unwrap(a[2]))

\* C6: every sign_allowed call that is given a price and is accepted was
\* given a price timestamp within 60 seconds of the block time.
C6_FreshPrice ==
    \A caller \in Callers, path \in Paths, id \in OpIdInputs,
       a \in AllSignArgs :
        (SignCall(caller, path, id, a).ok /\ IsSome(a[2]))
        => /\ IsSome(a[3])
           /\ now - Unwrap(a[3]) <= PriceMaxAge
           /\ Unwrap(a[3]) - now <= PriceMaxAge

\* every proof a relayer can put together: a signed message, or a message
\* it signed itself, presented under any address
AllProofs ==
    {[message |-> p[2], signature |-> SignAs(p[1], p[2]), signer |-> addr] :
        p \in OwnerSigned, addr \in Addresses}
    \cup {[message |-> ApprovalMessage("a", StopLossOp),
           signature |-> Forged(sha256(ApprovalMessage("a", StopLossOp))),
           signer |-> addr] : addr \in Addresses}

\* the proof's address is that of a wallet registered for the path, and
\* that wallet made the signature over the message
Genuine(path, proof) ==
    /\ path \in KnownPaths
    /\ \E w \in WalletsOf(path) :
           /\ w.chain_address = proof.signer
           /\ proof.signature = SignAs(w, proof.message)

\* C7: add_allowed_operation and remove_allowed_operation called with a
\* signer address that is not that of a wallet registered for the identity
\* key, or with a signature that wallet did not make over the message,
\* abort and leave the whole state unchanged.
C7_UnauthorizedSignerRejected ==
    \A path \in AllPaths, proof \in AllProofs :
        ~Genuine(path, proof)
        => \A caller \in Callers :
               /\ \A operation \in OpInputs :
                      Rejected(AddCall(caller, path, operation, proof))
               /\ \A id \in AllOpIds :
                      Rejected(RemoveCall(caller, path, id, proof))

\* a registered relayer presents, for a registered path that holds an
\* operation, a signature by a wallet of another path, and both calls
\* are rejected
C7_Witness ==
    \E path \in KnownPaths, proof \in AllProofs :
        /\ RelayerAccount \in contract.tee_relayers
        /\ DOMAIN OperationsOf(path) # {}
        /\ \E w \in Wallets : proof.signature = SignAs(w, proof.message)
        /\ ~Genuine(path, proof)
        /\ Rejected(AddCall(RelayerAccount, path, SwapOp, proof))
        /\ \A id \in DOMAIN OperationsOf(path) :
               Rejected(RemoveCall(RelayerAccount, path, id, proof))

\* C8: sign_allowed dispatches nothing and changes no state when the
\* identity key is unknown, the operation id is not in its allowlist, the
\* operation is executed, or the operation has an expiry and the current
\* time is at or past it.
C8_SignRejected ==
    \A path \in AllPaths, id \in AllOpIds :
        LET op == get_operation(contract, path, id)
        IN  (\/ op = None
             \/ Unwrap(op).executed
             \/ /\ IsSome(Unwrap(op).expires_at)
                /\ now >= Unwrap(Unwrap(op).expires_at))
            => \A caller \in Callers, a \in AllSignArgs :
                   Rejected(SignCall(caller, path, id, a))

\* an operation that is not executed is at its expiry time, and the
\* registered relayer's sign_allowed for it is rejected
C8_Witness ==
    \E path \in KnownPaths :
        \E id \in DOMAIN OperationsOf(path) :
            LET op == OperationsOf(path)[id]
            IN  /\ RelayerAccount \in contract.tee_relayers
                /\ ~op.executed
                /\ op.expires_at = Some(now)
                /\ Rejected(SignCall(RelayerAccount, path, id,
                                     <<"Eddsa", None, None>>))

\* C9 as stated: for an operation with expires_at = T, is_operation_allowed
\* answers true at every check time < T and false at every check time
\* >= T, whatever the executed flag.
C9_AllowedIffBeforeExpiry ==
    \A path \in KnownPaths :
        \A id \in DOMAIN OperationsOf(path) :
            LET op == OperationsOf(path)[id]
            IN  IsSome(op.expires_at)
                => \A t \in CheckTimes :
                       is_operation_allowed(contract,
                                            Context(StrangerAccount, t),
                                            path, id)
                           = (t < Unwrap(op.expires_at))

\* C9 amended: for an operation with expires_at = T, is_operation_allowed
\* answers false at every check time >= T whatever the executed flag, and
\* at a check time < T it answers true exactly when the operation is not
\* executed.
C9_AllowedIffBeforeExpiryAndNotExecuted ==
    \A path \in KnownPaths :
        \A id \in DOMAIN OperationsOf(path) :
            LET op == OperationsOf(path)[id]
            IN  IsSome(op.expires_at)
                => \A t \in CheckTimes :
                       is_operation_allowed(contract,
                                            Context(StrangerAccount, t),
                                            path, id)
                           = (t < Unwrap(op.expires_at) /\ ~op.executed)

\* an executed operation with an expiry that has not passed
C9_Witness ==
    \E path \in KnownPaths :
        \E id \in DOMAIN OperationsOf(path) :
            LET op == OperationsOf(path)[id]
            IN  /\ IsSome(op.expires_at)
                /\ op.executed
                /\ now < Unwrap(op.expires_at)
                /\ ~is_operation_allowed(contract,
                                         Context(StrangerAccount, now),
                                         path, id)

\* C10: for every identity key and every operation id issued for it, the
\* key "path:id" is in the active index exactly when the operation is in
\* that identity's allowlist with executed=false.
C10_IndexMatchesAllowlist ==
    \A path \in Paths :
        \A id \in IssuedIds(path) :
            LET op == get_operation(contract, path, id)
            IN  (ColonKey(path, id) \in ActiveIndex)
                    <=> (IsSome(op) /\ ~Unwrap(op).executed)

(***************************************************************************)
(* Registration                                                            *)
(***************************************************************************)
NonceInputs == 1..MaxNonce

\* a wallet record that claims the Near owner's address under a key of the
\* relayer's own
ImposterWallet ==
    [wallet_type |-> "Solana", public_key |-> PublicKey(KeyAttacker),
     chain_address |-> "alice.near"]

\* the signature the holder of the wallet record's key makes
WalletSign(w, message) ==
    IF w = ImposterWallet THEN Forged(message) ELSE SignAs(w, message)

\* register_wallet calls: every path, wallet record and nonce, with the
\* holder's signature over the canonical message of any path and nonce, or
\* with a signature by another key over the call's own canonical message
AllRegistrationCalls ==
    {[derivation_path |-> p, wallet |-> w, nonce |-> n,
      message |-> ExpectedRegisterMessage(mp, mn),
      signature |-> WalletSign(w, ExpectedRegisterMessage(mp, mn))] :
        p \in Paths, w \in Wallets \cup {ImposterWallet}, n \in NonceInputs,
        mp \in Paths, mn \in NonceInputs}
    \cup {[derivation_path |-> p, wallet |-> w, nonce |-> n,
           message |-> ExpectedRegisterMessage(p, n),
           signature |-> Forged(ExpectedRegisterMessage(p, n))] :
             p \in Paths, w \in {NearWallet, SolanaWallet},
             n \in NonceInputs}

\* what the host commits of a register_wallet call made now
RegisterCall(caller, r) ==
    Commit(contract,
           register_wallet(contract, Context(caller, now), r.derivation_path,
                           r.wallet.wallet_type, r.wallet.public_key,
                           r.wallet.chain_address, r.signature, r.message,
                           r.nonce))

NonceKey(r) == ColonKey(r.wallet.chain_address, ToString(r.nonce))

\* the call is valid: the signature is the key holder's over the call's
\* canonical message
ValidRegistration(r) ==
    /\ r.message = ExpectedRegisterMessage(r.derivation_path, r.nonce)
    /\ r.signature = WalletSign(r.wallet, r.message)
    /\ r.wallet.wallet_type # "Evm"

\* the signature is not the key holder's over the message, or the message
\* is not the canonical text for the call's path and nonce
BadRegistration(r) ==
    \/ r.signature # WalletSign(r.wallet, r.message)
    \/ r.message # ExpectedRegisterMessage(r.derivation_path, r.nonce)

BadRegistrations == {r \in AllRegistrationCalls : BadRegistration(r)}
ValidRegistrations == {v \in AllRegistrationCalls : ValidRegistration(v)}

\* register_wallet with any of the calls above
RegisterWalletAny ==
    \E caller \in Callers, r \in AllRegistrationCalls :
        /\ Apply(register_wallet(contract, Context(caller, now),
                                 r.derivation_path, r.wallet.wallet_type,
                                 r.wallet.public_key, r.wallet.chain_address,
                                 r.signature, r.message, r.nonce))
        /\ UNCHANGED <<now, observed>>

\* The registrations: register_wallet reads and writes the relayer set,
\* the consumed nonces, the wallets of the identities and the reverse
\* index, and no other entrypoint but the two that manage the relayer set
\* writes to any of them.
NextRegistration ==
    \/ RegisterTeeRelayer
    \/ RemoveTeeRelayer
    \/ RegisterWalletAny

SpecRegistration == Init /\ [][NextRegistration]_vars

\* the identity of the call has the call's address among its wallets
HasAddress(r) ==
    /\ r.derivation_path \in KnownPaths
    /\ \E w \in WalletsOf(r.derivation_path) :
           w.chain_address = r.wallet.chain_address

\* of every register_wallet call made now: on a consumed (address, nonce)
\* pair it is rejected; if it succeeds its pair is consumed; and a valid
\* call by the relayer for an address the identity already has, with an
\* unused nonce, succeeds and leaves the wallet list as it was
C11_Calls ==
    \A r \in AllRegistrationCalls, caller \in Callers :
        LET c == RegisterCall(caller, r)
        IN  /\ NonceKey(r) \in contract.used_nonces => Rejected(c)
            /\ c.ok => NonceKey(r) \in c.st.used_nonces
            /\ (/\ caller = RelayerAccount
                /\ RelayerAccount \in contract.tee_relayers
                /\ ValidRegistration(r)
                /\ NonceKey(r) \notin contract.used_nonces
                /\ HasAddress(r))
               => /\ c.ok
                  /\ c.st.permissions[r.derivation_path].owner_wallets
                         = contract.permissions[r.derivation_path]
                               .owner_wallets

\* no step releases a consumed pair
C11_Consumes == contract.used_nonces \subseteq contract'.used_nonces

\* C11: after register_wallet succeeded with address a and nonce N, every
\* later register_wallet with the same a and N is rejected with no state
\* change, and a later valid register_wallet for the same identity key with
\* the same a and an unused nonce succeeds and leaves the identity's wallet
\* list unchanged.
C11_ReplayAndIdempotence ==
    /\ []C11_Calls
    /\ [][C11_Consumes]_vars

\* alice.near was registered on "a" with nonce 1 and then again with
\* nonce 2, and is once in the wallets of "a"; the relayer is registered
\* and its replay of either registration is rejected
C11_Witness ==
    /\ RelayerAccount \in contract.tee_relayers
    /\ "alice.near:1" \in contract.used_nonces
    /\ "alice.near:2" \in contract.used_nonces
    /\ KnownPaths = {"a"}
    /\ contract.permissions["a"].owner_wallets = <<NearWallet>>
    /\ LET r1 == [derivation_path |-> "a", wallet |-> NearWallet,
                  nonce |-> 1, message |-> ExpectedRegisterMessage("a", 1),
                  signature |->
                      SignAs(NearWallet, ExpectedRegisterMessage("a", 1))]
           r2 == [derivation_path |-> "a", wallet |-> NearWallet,
                  nonce |-> 2, message |-> ExpectedRegisterMessage("a", 2),
                  signature |->
                      SignAs(NearWallet, ExpectedRegisterMessage("a", 2))]
       IN  /\ Rejected(RegisterCall(RelayerAccount, r1))
           /\ Rejected(RegisterCall(RelayerAccount, r2))

(***************************************************************************)
(* Caller gating                                                           *)
(***************************************************************************)
AccountInputs == {RelayerAccount, StrangerAccount}
MpcInputs == {MpcAccount, OtherMpcAccount}

\* what the host commits of the owner-only calls made now
RegisterRelayerCall(caller, account) ==
    Commit(contract,
           register_tee_relayer(contract, Context(caller, now), account))
RemoveRelayerCall(caller, account) ==
    Commit(contract,
           remove_tee_relayer(contract, Context(caller, now), account))
UpdateMpcCall(caller, mpc) ==
    Commit(contract, update_mpc_contract(contract, Context(caller, now), mpc))

\* the administrative part of the state
AdminState(s) == <<s.owner, s.tee_relayers, s.mpc_contract>>

\* every call of a relayer entrypoint by an account that is not in the
\* relayer set is rejected
C12_OnlyRelayers ==
    LET ids == AllOpIds
    IN  \A caller \in AllCallers :
            ~is_tee_relayer(contract, caller)
            => /\ \A r \in ValidRegistrations :
                      Rejected(RegisterCall(caller, r))
               /\ \A path \in AllPaths, proof \in Proofs :
                      /\ \A operation \in OpInputs :
                             Rejected(AddCall(caller, path, operation,
                                              proof))
                      /\ \A id \in ids :
                             Rejected(RemoveCall(caller, path, id, proof))
               /\ \A path \in AllPaths, id \in ids, a \in SignArgs :
                      Rejected(SignCall(caller, path, id, a))

\* every call of an owner entrypoint by another account is rejected
C12_OnlyOwner ==
    \A caller \in AllCallers \ {contract.owner} :
        /\ \A account \in AccountInputs :
               /\ Rejected(RegisterRelayerCall(caller, account))
               /\ Rejected(RemoveRelayerCall(caller, account))
        /\ \A mpc \in MpcInputs : Rejected(UpdateMpcCall(caller, mpc))

\* after the owner's register_tee_relayer(r), is_tee_relayer(r) is true;
\* after the owner's remove_tee_relayer(r) it is false
C12_OwnerCalls ==
    \A account \in AccountInputs :
        /\ LET c == RegisterRelayerCall(contract.owner, account)
           IN  c.ok /\ is_tee_relayer(c.st, account)
        /\ LET c == RemoveRelayerCall(contract.owner, account)
           IN  c.ok /\ ~is_tee_relayer(c.st, account)

\* a step that changes the owner, the relayer set or the signer's address
\* is one of the three owner entrypoints called by the owner
C12_AdminSteps ==
    AdminState(contract') # AdminState(contract)
    => \/ \E account \in AccountInputs :
              \/ contract' = RegisterRelayerCall(contract.owner, account).st
              \/ contract' = RemoveRelayerCall(contract.owner, account).st
       \/ \E mpc \in MpcInputs :
              contract' = UpdateMpcCall(contract.owner, mpc).st

\* C12: the relayer entrypoints change state or dispatch a request only
\* for a caller that is in the relayer set at the time of the call; the
\* relayer set and the signer's address change only through
\* register_tee_relayer, remove_tee_relayer and update_mpc_contract called
\* by the owner; register makes is_tee_relayer true and remove makes it
\* false.
C12_CallerGating ==
    /\ [](C12_OnlyRelayers /\ C12_OnlyOwner /\ C12_OwnerCalls)
    /\ [][C12_AdminSteps]_vars

\* the relayer has registered a wallet and added an operation, was then
\* removed, and its calls are rejected
C12_Witness ==
    /\ ~is_tee_relayer(contract, RelayerAccount)
    /\ \E path \in KnownPaths :
           \E id \in DOMAIN OperationsOf(path) :
               /\ ~OperationsOf(path)[id].executed
               /\ \A a \in SignArgs :
                      Rejected(SignCall(RelayerAccount, path, id, a))
               /\ \A proof \in Proofs :
                      Rejected(RemoveCall(RelayerAccount, path, id, proof))

(***************************************************************************)
(* Operation ids                                                           *)
(***************************************************************************)
\* the outcome of an add_allowed_operation call made now, with the id it
\* returns
AddOutcome(caller, path, operation, proof) ==
    add_allowed_operation(contract, Context(caller, now), path, operation,
                          proof.signature, proof.message, proof.signer)

\* a successful add_allowed_operation on path returns "path-n" for n the
\* path's next_nonce, stores the operation under that id with
\* executed=false and nonce n, and increases next_nonce by one
C13_AddIssuesNextId ==
    \A caller \in Callers, path \in Paths, operation \in AllOps,
       proof \in Proofs :
        LET out == AddOutcome(caller, path, operation, proof)
        IN  ~out.panic
            => LET n == contract.permissions[path].next_nonce
                   after == out.st.permissions[path]
                   id == OperationId(path, n)
               IN  /\ out.ret = Some(id)
                   /\ id \notin DOMAIN OperationsOf(path)
                   /\ id \in DOMAIN after.allowed_operations
                   /\ ~after.allowed_operations[id].executed
                   /\ after.allowed_operations[id].nonce = n
                   /\ after.allowed_operations[id].operation_id = id
                   /\ ContentOf(after.allowed_operations[id]) = operation
                   /\ after.next_nonce = n + 1

\* every stored operation carries an id made of its path and its nonce,
\* and the nonce is one that was already issued
C13_StoredIds ==
    \A path \in KnownPaths :
        /\ contract.permissions[path].next_nonce >= 1
        /\ \A id \in DOMAIN OperationsOf(path) :
               LET op == OperationsOf(path)[id]
               IN  /\ op.nonce >= 1
                   /\ op.nonce < contract.permissions[path].next_nonce
                   /\ id = OperationId(path, op.nonce)

\* distinct nonces give distinct ids
C13_IdsDiffer ==
    \A path \in Paths, m \in 1..(MaxOps + 1), n \in 1..(MaxOps + 1) :
        m # n => OperationId(path, m) # OperationId(path, n)

\* an identity is created with next_nonce 1 and stays; next_nonce never
\* decreases, and a step that changes it is an add_allowed_operation on
\* that identity
C13_NonceSteps ==
    /\ \A path \in DOMAIN contract'.permissions \ KnownPaths :
           /\ contract'.permissions[path].next_nonce = 1
           /\ DOMAIN contract'.permissions[path].allowed_operations = {}
    /\ \A path \in KnownPaths :
           /\ path \in DOMAIN contract'.permissions
           /\ contract'.permissions[path].next_nonce
                  >= contract.permissions[path].next_nonce
           /\ contract'.permissions[path].next_nonce
                  # contract.permissions[path].next_nonce
              => \E caller \in Callers, operation \in OpInputs,
                    proof \in Proofs :
                     LET out == AddOutcome(caller, path, operation, proof)
                     IN  ~out.panic /\ contract' = out.st

\* C13: a successful add_allowed_operation on identity key k returns "k-n"
\* for n the next_nonce of k before the call, stores the operation with
\* executed=false and nonce n and increases next_nonce by one; next_nonce
\* starts at 1, changes in no other operation and never decreases, so no id
\* is issued twice within an identity.
C13_OperationIds ==
    /\ [](C13_AddIssuesNextId /\ C13_StoredIds /\ C13_IdsDiffer)
    /\ [][C13_NonceSteps]_vars

\* the one operation of "a" was removed, and the relayer's next add on "a"
\* returns "a-2"
C13_Witness ==
    /\ "a" \in KnownPaths
    /\ contract.permissions["a"].next_nonce = 2
    /\ DOMAIN OperationsOf("a") = {}
    /\ \E proof \in Proofs :
           LET out == AddOutcome(RelayerAccount, "a", SwapOp, proof)
           IN  ~out.panic /\ out.ret = Some("a-2")

(***************************************************************************)
(* Failed registrations                                                    *)
(***************************************************************************)
\* what the host commits of a register_wallet call made in storage s
RegisterIn(s, caller, r) ==
    Commit(s,
           register_wallet(s, Context(caller, now), r.derivation_path,
                           r.wallet.wallet_type, r.wallet.public_key,
                           r.wallet.chain_address, r.signature, r.message,
                           r.nonce))

\* C14: a register_wallet call whose signature does not verify or whose
\* message is not the canonical text leaves the whole state unchanged, so
\* a later valid registration with the same (address, nonce) pair is still
\* accepted, and it consumes the pair, adds the wallet and writes the
\* reverse index.
C14_FailedRegistrationNoChange ==
    \A r \in BadRegistrations :
        /\ \A caller \in Callers : Rejected(RegisterCall(caller, r))
        /\ (/\ RelayerAccount \in contract.tee_relayers
            /\ NonceKey(r) \notin contract.used_nonces)
           => \A v \in {x \in ValidRegistrations :
                            NonceKey(x) = NonceKey(r)} :
                  LET c == RegisterCall(RelayerAccount, r)
                      d == RegisterIn(c.st, RelayerAccount, v)
                      a == v.wallet.chain_address
                  IN  /\ d.ok
                      /\ NonceKey(v) \in d.st.used_nonces
                      /\ \E w \in Range(d.st.permissions[
                             v.derivation_path].owner_wallets) :
                             w.chain_address = a
                      /\ get_path_for_wallet(d.st, a)
                             = Some(v.derivation_path)

\* with a wallet already registered, the relayer presents for a fresh pair
\* the owner's signature over the canonical text of another path, which is
\* rejected, and then the valid registration, which is accepted
C14_Witness ==
    /\ RelayerAccount \in contract.tee_relayers
    /\ KnownPaths # {}
    /\ "SoLAddr1:1" \notin contract.used_nonces
    /\ LET bad == [derivation_path |-> "a", wallet |-> SolanaWallet,
                   nonce |-> 1,
                   message |-> ExpectedRegisterMessage("a:a", 1),
                   signature |->
                       SignAs(SolanaWallet,
                              ExpectedRegisterMessage("a:a", 1))]
           good == [bad EXCEPT !.derivation_path = "a:a"]
           c == RegisterCall(RelayerAccount, bad)
       IN  /\ bad \in AllRegistrationCalls
           /\ BadRegistration(bad)
           /\ Rejected(c)
           /\ RegisterIn(c.st, RelayerAccount, good).ok

(***************************************************************************)
(* The dispatched request                                                  *)
(***************************************************************************)
\* C15: every accepted sign_allowed call dispatches a request that carries
\* the call's identity key as path, with selector 1 and the hex payload
\* tagged Eddsa for key_type "Eddsa", and selector 0 and the hex payload
\* tagged Ecdsa for key_type "Ecdsa"; with any other key_type the call is
\* rejected, nothing is dispatched and the operation stays as it was.
C15_RequestShape ==
    /\ \A pr \in BagToSet(promises) :
           LET hex == Some(HexEncode(PayloadInput))
           IN  /\ pr.request.path = pr.derivation_path
               /\ \/ /\ pr.request.domain_id = 1
                     /\ pr.request.payload_v2
                            = [eddsa |-> hex, ecdsa |-> None]
                  \/ /\ pr.request.domain_id = 0
                     /\ pr.request.payload_v2
                            = [eddsa |-> None, ecdsa |-> hex]
    /\ \A caller \in Callers, path \in AllPaths, id \in AllOpIds,
          a \in AllSignArgs :
        LET c == SignCall(caller, path, id, a)
        IN  /\ a[1] \notin {"Eddsa", "Ecdsa"} => Rejected(c)
            /\ c.ok
               => /\ IsSome(c.promise)
                  /\ LET request == Unwrap(c.promise).request
                         hex == Some(HexEncode(PayloadInput))
                     IN  /\ request.path = path
                         /\ get_operation(contract, path, id) # None
                         /\ Unwrap(get_operation(contract, path, id))
                                .derivation_path = path
                         /\ a[1] = "Eddsa"
                            => /\ request.domain_id = 1
                               /\ request.payload_v2
                                      = [eddsa |-> hex, ecdsa |-> None]
                         /\ a[1] = "Ecdsa"
                            => /\ request.domain_id = 0
                               /\ request.payload_v2
                                      = [eddsa |-> None, ecdsa |-> hex]

\* a request with selector 0 and the payload tagged Ecdsa is in flight for
\* an operation of "a", which is marked executed
C15_Witness ==
    \E pr \in BagToSet(promises) :
        /\ pr.request.path = "a"
        /\ pr.request.domain_id = 0
        /\ pr.request.payload_v2
               = [eddsa |-> None, ecdsa |-> Some(HexEncode(PayloadInput))]
        /\ pr.operation_id \in DOMAIN OperationsOf("a")
        /\ OperationsOf("a")[pr.operation_id].executed

(***************************************************************************)
(* Price conditions                                                        *)
(***************************************************************************)
\* a price below, at and above the trigger of the conditional operations
PriceInputs == {40, 50, 60}

\* price timestamps within PriceMaxAge of the block time
FreshTimestamps ==
    {t \in {now - PriceMaxAge, now - 1, now} : t >= 0}

\* the operation exists, is not executed and is not at or past its expiry
Executable(path, id) ==
    LET op == get_operation(contract, path, id)
    IN  /\ IsSome(op)
        /\ ~Unwrap(op).executed
        /\ IsSome(Unwrap(op).expires_at)
           => now < Unwrap(Unwrap(op).expires_at)

\* C16: a sign_allowed call by a registered relayer with a valid key type,
\* a price p and a fresh timestamp, for an executable operation, is
\* accepted exactly when the operation is a Swap, or p <= trigger for a
\* StopLoss or a LimitOrder Below, or p >= trigger for a TakeProfit or a
\* LimitOrder Above; when it is not accepted nothing changes.
C16_PriceCondition ==
    \A path \in KnownPaths :
        \A id \in DOMAIN OperationsOf(path) :
            (Executable(path, id) /\ RelayerAccount \in contract.tee_relayers)
            => \A p \in PriceInputs, t \in FreshTimestamps,
                  k \in {"Eddsa", "Ecdsa"} :
                   LET c == SignCall(RelayerAccount, path, id,
                                     <<k, Some(p), Some(t)>>)
                       ot == OperationsOf(path)[id].operation_type
                   IN  /\ c.ok <=> TriggerHolds(ot, p)
                       /\ ~c.ok => Rejected(c)

\* a conditional operation is executable at a later block time and the
\* relayer is registered: a price on the wrong side of the trigger is rejected, and the trigger
\* price itself is accepted
C16_Witness ==
    \E path \in KnownPaths :
        \E id \in DOMAIN OperationsOf(path) :
            LET ot == OperationsOf(path)[id].operation_type
            IN  /\ ot.type # "Swap"
                /\ now > 0
                /\ Executable(path, id)
                /\ RelayerAccount \in contract.tee_relayers
                /\ \E p \in PriceInputs :
                       /\ ~TriggerHolds(ot, p)
                       /\ Rejected(SignCall(RelayerAccount, path, id,
                                            <<"Eddsa", Some(p), Some(now)>>))
                /\ SignCall(RelayerAccount, path, id,
                            <<"Eddsa", Some(ot.trigger_price), Some(now)>>).ok

(***************************************************************************)
(* Removal                                                                 *)
(***************************************************************************)
\* C17: remove_allowed_operation by a registered relayer with a proof by a
\* wallet registered for the identity succeeds, leaves the id out of the
\* identity's allowlist and its key out of the active index whatever the
\* operation's state, and for an id that is already absent leaves the
\* allowlist and the active index as they were.
C17_RemoveIdempotent ==
    \A path \in KnownPaths, proof \in AllProofs :
        (Genuine(path, proof) /\ RelayerAccount \in contract.tee_relayers)
        => \A id \in AllOpIds :
               LET c == RemoveCall(RelayerAccount, path, id, proof)
                   after == c.st.permissions[path].allowed_operations
               IN  /\ c.ok
                   /\ id \notin DOMAIN after
                   /\ ColonKey(path, id) \notin Range(c.st.active_operations)
                   /\ id \notin DOMAIN OperationsOf(path)
                      => /\ after = OperationsOf(path)
                         /\ c.st.active_operations = contract.active_operations

(***************************************************************************)
(* Transitions of the executed flag                                        *)
(***************************************************************************)
\* what the host commits of on_mpc_sign_complete called directly
DirectCallback(caller, path, id, result) ==
    Commit(contract,
           on_mpc_sign_complete(contract, Context(caller, now), path, id,
                                result))

\* on_mpc_sign_complete called by any account but the contract is rejected
C18_CallbackIsPrivate ==
    \A caller \in AllCallers \ {ContractAccount}, path \in AllPaths,
       id \in AllOpIds, result \in SignResults :
        Rejected(DirectCallback(caller, path, id, result))

\* a step that takes an operation's flag from true to false is the
\* callback of a failed request dispatched for that operation, and a step
\* that takes it from false to true is an accepted sign_allowed on it
C18_FlagSteps ==
    \A path \in KnownPaths :
        \A id \in DOMAIN OperationsOf(path) :
            LET before == OperationsOf(path)[id].executed
                ops == contract'.permissions[path].allowed_operations
            IN  id \in DOMAIN ops
                => /\ (before /\ ~ops[id].executed)
                      => \E pr \in BagToSet(promises) :
                             /\ pr.derivation_path = path
                             /\ pr.operation_id = id
                             /\ promises' = promises (-) SetToBag({pr})
                             /\ contract'
                                  = CallbackCall(pr, [ok |-> FALSE]).st
                   /\ (~before /\ ops[id].executed)
                      => \E caller \in Callers, a \in SignArgs :
                             LET c == SignCall(caller, path, id, a)
                             IN  c.ok /\ contract' = c.st

\* C18: an operation's executed flag goes from true to false only in the
\* completion callback of a failed request dispatched for that operation;
\* a direct call of on_mpc_sign_complete by another account is rejected,
\* and every other change of the flag is from false to true in
\* sign_allowed.
C18_FlagTransitions ==
    /\ []C18_CallbackIsPrivate
    /\ [][C18_FlagSteps]_vars

\* an operation is executed and its request has completed; a direct call
\* of the callback with a failure, by the relayer, the owner or a
\* stranger, is rejected and the flag stays
C18_Witness ==
    \E path \in KnownPaths :
        \E id \in DOMAIN OperationsOf(path) :
            /\ OperationsOf(path)[id].executed
            /\ InFlight(path, id) = 0
            /\ RelayerAccount \in contract.tee_relayers
            /\ \A caller \in {RelayerAccount, OwnerAccount, StrangerAccount} :
                   LET c == DirectCallback(caller, path, id, [ok |-> FALSE])
                   IN  /\ Rejected(c)
                       /\ c.st.permissions[path].allowed_operations[id]
                              .executed

(***************************************************************************)
(* Partition by identity key                                               *)
(***************************************************************************)
\* storage s holds for identity key B what the contract holds now: the
\* allowlist, next_nonce, and the index membership of each operation of B
SameFor(B, s) ==
    /\ s.permissions[B].allowed_operations = OperationsOf(B)
    /\ s.permissions[B].next_nonce = contract.permissions[B].next_nonce
    /\ \A id \in DOMAIN OperationsOf(B) :
           (ColonKey(B, id) \in Range(s.active_operations))
               <=> (ColonKey(B, id) \in ActiveIndex)

\* C19: a successful add_allowed_operation, remove_allowed_operation or
\* sign_allowed on identity key A, with any operation id, leaves the
\* allowlist, the next_nonce and the index membership of every operation
\* of every other identity key B unchanged.
C19_Partition ==
    \A A \in KnownPaths, B \in KnownPaths :
        A # B
        => \A caller \in Callers :
               /\ \A operation \in OpInputs, proof \in Proofs :
                      LET c == AddCall(caller, A, operation, proof)
                      IN  c.ok => SameFor(B, c.st)
               /\ \A id \in AllOpIds, proof \in Proofs :
                      LET c == RemoveCall(caller, A, id, proof)
                      IN  c.ok => SameFor(B, c.st)
               /\ \A id \in AllOpIds, a \in SignArgs :
                      LET c == SignCall(caller, A, id, a)
                      IN  c.ok => SameFor(B, c.st)

(***************************************************************************)
(* Polling the active index                                                *)
(***************************************************************************)
\* the pairs returned by paging over the whole index with pages of limit
PagedOver(limit) ==
    UNION {Range(get_active_operations(contract, U64(from), U64(limit))) :
               from \in {i \in 0..Len(contract.active_operations) :
                             i % limit = 0}}

\* C20: every pair get_active_operations returns is an identity key with
\* an operation stored in that identity's allowlist, and paging over the
\* whole index returns every operation that is in some allowlist with
\* executed=false, under its identity key.
C20_ActiveOperations ==
    \A limit \in 1..(MaxOps + 1) :
        /\ \A pair \in PagedOver(limit) :
               /\ pair[1] \in KnownPaths
               /\ pair[2].operation_id \in DOMAIN OperationsOf(pair[1])
               /\ OperationsOf(pair[1])[pair[2].operation_id] = pair[2]
        /\ \A path \in KnownPaths :
               \A id \in DOMAIN OperationsOf(path) :
                   ~OperationsOf(path)[id].executed
                   => <<path, OperationsOf(path)[id]>> \in PagedOver(limit)

(***************************************************************************)
(* The order of the active index                                           *)
(***************************************************************************)
\* operations approved on the one identity of the index specification
MaxIndexOps == 3

\* new, then the owner's register_tee_relayer and the relayer's
\* register_wallet of alice.near for "a"
RegisteredState ==
    LET s0 == new(OwnerAccount, MpcAccount)
        s1 == Commit(s0, register_tee_relayer(s0, Context(OwnerAccount, 0),
                                              RelayerAccount)).st
        m == ExpectedRegisterMessage("a", 1)
    IN  Commit(s1, register_wallet(s1, Context(RelayerAccount, 0), "a",
                                   NearWallet.wallet_type,
                                   NearWallet.public_key,
                                   NearWallet.chain_address,
                                   SignAs(NearWallet, m), m, 1)).st

InitIndex ==
    /\ contract = RegisteredState
    /\ now = 0
    /\ promises = EmptyBag
    /\ observed = {}

IndexOpIds == {OperationId("a", n) : n \in 1..MaxIndexOps}
IndexProof == Proof(NearWallet, ApprovalMessage("a", SwapOp), "alice.near")

\* add_allowed_operation on "a", at most MaxIndexOps times
AddIndexed ==
    /\ contract.permissions["a"].next_nonce <= MaxIndexOps
    /\ Apply(add_allowed_operation(contract, Context(RelayerAccount, now),
                                   "a", SwapOp, IndexProof.signature,
                                   IndexProof.message, IndexProof.signer))
    /\ UNCHANGED <<now, observed>>

RemoveIndexed ==
    \E id \in IndexOpIds :
        /\ Apply(remove_allowed_operation(contract,
                                          Context(RelayerAccount, now), "a",
                                          id, IndexProof.signature,
                                          IndexProof.message,
                                          IndexProof.signer))
        /\ UNCHANGED <<now, observed>>

SignIndexed ==
    \E id \in IndexOpIds :
        /\ Apply(sign_allowed(contract, Context(RelayerAccount, now), "a",
                              id, PayloadInput, "Eddsa", None, None))
        /\ UNCHANGED <<now, observed>>

\* The entrypoints that write the active index, on one identity with up to
\* MaxIndexOps operations.
NextIndex ==
    \/ AddIndexed
    \/ RemoveIndexed
    \/ SignIndexed
    \/ OnMpcSignComplete

SpecIndex == InitIndex /\ [][NextIndex]_vars

\* the whole index as get_active_operations returns it
WholeIndex ==
    get_active_operations(contract, U64(0),
                          U64(Len(contract.active_operations)))

\* C21: of any two operations in the index, the one inserted earlier is
\* returned at a smaller position by get_active_operations. The operations
\* of one identity are inserted in the order of their nonces, each once.
C21_InsertionOrder ==
    \A i \in 1..Len(WholeIndex), j \in 1..Len(WholeIndex) :
        (i < j /\ WholeIndex[i][1] = WholeIndex[j][1])
        => WholeIndex[i][2].nonce < WholeIndex[j][2].nonce

(***************************************************************************)
(* Replay of a registration proof                                          *)
(***************************************************************************)
\* chain_address strings a relayer submits with a proof it holds
AddressInputs == Addresses \cup {"alias.near", "SoLAddr2"}

\* the call r with another chain_address string: the same message,
\* signature, public key, path and nonce
WithAddress(r, a) == [r EXCEPT !.wallet.chain_address = a]

\* a step that is the relayer's accepted register_wallet call r leaves a
\* state in which the same call under any chain_address string is rejected
C22_ProofStep ==
    \A r \in AllRegistrationCalls :
        LET c == RegisterCall(RelayerAccount, r)
        IN  (c.ok /\ contract' = c.st)
            => \A a \in AddressInputs :
                   ~RegisterIn(contract', RelayerAccount,
                               WithAddress(r, a)).ok

\* C22: a registration proof (message, signature, public key) that
\* register_wallet has accepted is not accepted again, whatever
\* chain_address string is submitted with it.
C22_ProofNotReplayed == [][C22_ProofStep]_vars

(***************************************************************************)
(* Revocation                                                              *)
(***************************************************************************)
\* The ids of path that were issued and are no longer in its allowlist.
\* Ids are issued in the order of next_nonce and an operation leaves the
\* allowlist in remove_allowed_operation alone, so these are the revoked
\* ids.
RevokedIds(s, path) ==
    {OperationId(path, n) : n \in 1..(s.permissions[path].next_nonce - 1)}
        \ DOMAIN s.permissions[path].allowed_operations

\* a successful remove_allowed_operation on a stored operation takes it
\* out of the allowlist and its key out of the index
C23_RemoveRevokes ==
    \A path \in KnownPaths :
        \A id \in DOMAIN OperationsOf(path) :
            \A caller \in Callers, proof \in Proofs :
                LET c == RemoveCall(caller, path, id, proof)
                IN  c.ok
                    => /\ id \in RevokedIds(c.st, path)
                       /\ ColonKey(path, id) \notin Range(c.st.active_operations)

\* a revoked id is in neither the allowlist nor the index, every
\* sign_allowed on it is rejected, and the callback of a request that is
\* in flight for it commits nothing, whatever the result
C23_RevokedInert ==
    \A path \in KnownPaths :
        \A id \in RevokedIds(contract, path) :
            /\ get_operation(contract, path, id) = None
            /\ ColonKey(path, id) \notin ActiveIndex
            /\ \A caller \in Callers, a \in SignArgs :
                   Rejected(SignCall(caller, path, id, a))
            /\ \A pr \in BagToSet(promises), result \in SignResults :
                   (pr.derivation_path = path /\ pr.operation_id = id)
                   => CallbackCall(pr, result).st = contract

\* a revoked id stays revoked, and no step dispatches a request for it
C23_RevokedStays ==
    \A path \in KnownPaths :
        \A id \in RevokedIds(contract, path) :
            /\ id \in RevokedIds(contract', path)
            /\ \A pr \in BagToSet(promises') :
                   (pr.derivation_path = path /\ pr.operation_id = id)
                   => CopiesIn(pr, promises') <= CopiesIn(pr, promises)

\* C23: after remove_allowed_operation succeeded for an operation id, the
\* id is never again in the allowlist or in the active index and no
\* signing request is dispatched for it, also when a request for it was in
\* flight at the removal and its callback later reports failure.
C23_RevocationTerminal ==
    /\ [](C23_RemoveRevokes /\ C23_RevokedInert)
    /\ [][C23_RevokedStays]_vars

\* "a-1" was signed and then removed while its request was in flight; the
\* callback of the failed request finds no operation and commits nothing
C23_Witness ==
    /\ "a" \in KnownPaths
    /\ "a-1" \in RevokedIds(contract, "a")
    /\ \E pr \in BagToSet(promises) :
           /\ pr.derivation_path = "a"
           /\ pr.operation_id = "a-1"
           /\ CallbackCall(pr, [ok |-> FALSE]).st = contract

(***************************************************************************)
(* Adding a wallet to an identity                                          *)
(***************************************************************************)
\* what the host commits of the relayer's add_allowed_operation and
\* remove_allowed_operation made in storage s
AddIn(s, path, operation, proof) ==
    Commit(s, add_allowed_operation(s, Context(RelayerAccount, now), path,
                                    operation, proof.signature,
                                    proof.message, proof.signer))
RemoveIn(s, path, id, proof) ==
    Commit(s, remove_allowed_operation(s, Context(RelayerAccount, now), path,
                                       id, proof.signature, proof.message,
                                       proof.signer))

\* the calls that carry the key holder's signature over the call's own
\* canonical message, for a wallet record of one of the types
SelfSigned(types) ==
    {r \in AllRegistrationCalls :
        /\ r.wallet.wallet_type \in types
        /\ r.message = ExpectedRegisterMessage(r.derivation_path, r.nonce)
        /\ r.signature = WalletSign(r.wallet, r.message)}

\* the relayer's call r on an identity that has wallets, none with r's
\* address, with an unused pair, adds r's wallet, and the wallet's
\* signature then authorizes add_allowed_operation and
\* remove_allowed_operation on the identity
C24_AddsWallet(r) ==
    (/\ RelayerAccount \in contract.tee_relayers
     /\ r.derivation_path \in KnownPaths
     /\ ~HasAddress(r)
     /\ NonceKey(r) \notin contract.used_nonces)
    => LET c == RegisterCall(RelayerAccount, r)
           path == r.derivation_path
           approval ==
               [message |-> ApprovalMessage(path, SwapOp),
                signature |->
                    WalletSign(r.wallet, ApprovalMessage(path, SwapOp)),
                signer |-> r.wallet.chain_address]
           added == AddIn(c.st, path, SwapOp, approval)
           id == OperationId(path, c.st.permissions[path].next_nonce)
       IN  /\ c.ok
           /\ r.wallet \in Range(c.st.permissions[path].owner_wallets)
           /\ added.ok
           /\ id \in DOMAIN added.st.permissions[path].allowed_operations
           /\ RemoveIn(added.st, path, id, approval).ok

\* for the wallet types that sign with Ed25519
C24_Ed25519WalletAdded ==
    \A r \in SelfSigned({"Near", "Solana"}) : C24_AddsWallet(r)

\* C24: register_wallet on an identity that has wallets adds any new
\* chain_address given a relayer caller, an unused (chain_address, nonce)
\* pair and the new wallet's own signature over the canonical message,
\* with no proof from a wallet already registered, and the added wallet
\* then authorizes add_allowed_operation and remove_allowed_operation.
C24_AnyWalletAdded ==
    \A r \in SelfSigned({"Near", "Solana", "Evm"}) : C24_AddsWallet(r)

(***************************************************************************)
(* The reverse index                                                       *)
(***************************************************************************)
\* the identity has a wallet with the address
RegisteredFor(s, path, a) ==
    /\ path \in DOMAIN s.permissions
    /\ \E i \in 1..Len(s.permissions[path].owner_wallets) :
           s.permissions[path].owner_wallets[i].chain_address = a

\* whenever get_path_for_wallet(a) returns k, a is the address of a wallet
\* registered for k
C25_PointsToWallet ==
    \A a \in AddressInputs :
        LET k == get_path_for_wallet(contract, a)
        IN  IsSome(k) => RegisteredFor(contract, Unwrap(k), a)

\* a successful register_wallet makes the reverse index of its address its
\* own identity key, and the address stays a wallet of every identity it
\* was registered for
C25_Overwrites ==
    \A r \in AllRegistrationCalls, caller \in Callers :
        LET c == RegisterCall(caller, r)
            a == r.wallet.chain_address
        IN  c.ok
            => /\ get_path_for_wallet(c.st, a) = Some(r.derivation_path)
               /\ \A k \in KnownPaths :
                      RegisteredFor(contract, k, a)
                      => RegisteredFor(c.st, k, a)

\* a step that changes the reverse index of an address is a successful
\* register_wallet of that address, under the identity key it then returns
C25_IndexSteps ==
    \A a \in AddressInputs :
        LET after == get_path_for_wallet(contract', a)
        IN  after # get_path_for_wallet(contract, a)
            => \E r \in {x \in AllRegistrationCalls :
                             /\ x.wallet.chain_address = a
                             /\ Some(x.derivation_path) = after} :
                   \E caller \in Callers :
                       LET c == RegisterCall(caller, r)
                       IN  c.ok /\ contract' = c.st

\* C25: whenever get_path_for_wallet(a) returns k, a is the address of a
\* wallet registered for k and k is the identity key of the latest
\* successful register_wallet of a; a successful register_wallet of a
\* under a second identity key overwrites the entry while a stays a wallet
\* of the first identity.
C25_ReverseIndex ==
    /\ [](C25_PointsToWallet /\ C25_Overwrites)
    /\ [][C25_IndexSteps]_vars

\* alice.near was registered for "a" and then for "a:a": the reverse index
\* returns "a:a" and alice.near is a wallet of both
C25_Witness ==
    /\ get_path_for_wallet(contract, "alice.near") = Some("a:a")
    /\ RegisteredFor(contract, "a", "alice.near")
    /\ RegisteredFor(contract, "a:a", "alice.near")

(***************************************************************************)
(* The queries on unknown keys                                             *)
(***************************************************************************)
\* from_index and limit of get_active_operations: values below and at
\* 2^32, each with the lower word up to past the end of the index
U64Inputs == {[hi |-> h, lo |-> l] : h \in 0..1, l \in 0..(MaxOps + 1)}

\* the u64 is at or past the end of the index
PastEnd(x) == x.hi > 0 \/ x.lo >= Len(contract.active_operations)

\* get_operations, get_operation and is_operation_allowed on an identity
\* key with no permissions, and the latter two on an id that is not stored
C26_UnknownKeys ==
    /\ \A path \in AllPaths \ KnownPaths :
           /\ get_operations(contract, path) = <<>>
           /\ \A id \in AllOpIds :
                  /\ get_operation(contract, path, id) = None
                  /\ ~is_operation_allowed(contract,
                                           Context(StrangerAccount, now),
                                           path, id)
    /\ \A path \in KnownPaths :
           \A id \in AllOpIds \ DOMAIN OperationsOf(path) :
               /\ get_operation(contract, path, id) = None
               /\ ~is_operation_allowed(contract,
                                        Context(StrangerAccount, now),
                                        path, id)

\* get_active_operations on an empty index or from past its end
C26_PastEndEmpty ==
    \A from_index \in U64Inputs, limit \in U64Inputs :
        (contract.active_operations = <<>> \/ PastEnd(from_index))
        => get_active_operations(contract, from_index, limit) = <<>>

\* C26: the queries do not abort on unknown keys: get_operations returns
\* the empty list and get_operation none for an identity key with no
\* permissions, is_operation_allowed returns false for an unknown identity
\* key or operation id, and get_active_operations returns an empty list
\* when the index is empty or from_index is past its end.
C26_Queries == C26_UnknownKeys /\ C26_PastEndEmpty

(***************************************************************************)
(* Malformed signatures, keys and addresses                                *)
(***************************************************************************)
\* the wallet's signature over the message with one byte less or more
WrongLength(sig) == {[sig EXCEPT !.len = l] : l \in {sig.len - 1, sig.len + 1}}
SigInputs(wallet, message) ==
    {SignAs(wallet, message)} \cup WrongLength(SignAs(wallet, message))

\* the wallet's public key, and the key with one byte less or more
KeyInputs(wallet) ==
    {wallet.public_key}
    \cup {[wallet.public_key EXCEPT !.len = l] :
              l \in {Ed25519KeyLen - 1, Ed25519KeyLen + 1}}

Hex40 == "742d35Cc6634C0532925a3b844Bc9e7595f2bD20"
\* address strings: the 40 hex characters with and without the prefix,
\* one character short and long, with a character that is no hex digit,
\* with an upper-case prefix, and the empty string
EvmAddressInputs ==
    {Hex40, "0x" \o Hex40,
     SubSeq(Hex40, 1, 39), "0x" \o SubSeq(Hex40, 1, 39),
     Hex40 \o "0", "0x" \o Hex40 \o "0",
     "g" \o SubSeq(Hex40, 2, 40), "0x" \o "g" \o SubSeq(Hex40, 2, 40),
     "0X" \o Hex40, ""}

\* 40 characters, each a hex digit
IsHex40(h) ==
    /\ Len(h) = 40
    /\ \A i \in 1..40 :
           Char(h, i) \in Range(HexDigits) \cup Range(UpperHexDigits)

\* the two Ed25519 verifiers answer false for a key that is not 32 bytes
\* or a signature that is not 64 bytes, whoever made the signature
C27_Ed25519Closed ==
    \A w \in {NearWallet, SolanaWallet} :
        \A pk \in KeyInputs(w), m \in {"m", ExpectedRegisterMessage("a", 2)} :
            \A sig \in SigInputs(w, m) :
                (pk.len # 32 \/ sig.len # 64)
                => /\ ~verify_near_signature(pk, m, sig)
                   /\ ~verify_solana_signature(pk, m, sig)

\* the EVM verifier answers false, without reaching the host's recovery
\* call, for a signature that is not 65 bytes or an address that is not 40
\* hex characters after an optional "0x"; the 40 hex characters decode to
\* the same 20 bytes with and without the prefix
C27_EvmClosed ==
    /\ \A a \in EvmAddressInputs, m \in {"m", ExpectedRegisterMessage("a", 2)} :
           \A sig \in SigInputs(EvmWallet, m) :
               (sig.len # 65 \/ ~IsHex40(StripPrefix0x(a)))
               => verify_evm_signature(a, m, sig)
                      = [abort |-> FALSE, ok |-> FALSE]
    /\ \A a \in EvmAddressInputs :
           /\ IsHex40(StripPrefix0x(a)) <=> IsSome(parse_evm_address(a))
           /\ IsHex40(a)
              => /\ parse_evm_address("0x" \o a) = parse_evm_address(a)
                 /\ Len(Unwrap(parse_evm_address(a))) = 20

\* register_wallet calls with the wallet's own signature over the call's
\* canonical message, where the key, the signature or the address may be
\* malformed
MalformedRegistrations ==
    {[derivation_path |-> "a", wallet |-> [w EXCEPT !.public_key = pk],
      nonce |-> 2, message |-> ExpectedRegisterMessage("a", 2),
      signature |-> sig] :
        <<w, pk, sig>> \in
            UNION {{<<w, pk, sig>> :
                       pk \in KeyInputs(w),
                       sig \in SigInputs(w, ExpectedRegisterMessage("a", 2))} :
                   w \in {NearWallet, SolanaWallet}}}
    \cup {[derivation_path |-> "a",
           wallet |-> [EvmWallet EXCEPT !.chain_address = a],
           nonce |-> 2, message |-> ExpectedRegisterMessage("a", 2),
           signature |-> sig] :
             a \in EvmAddressInputs,
             sig \in SigInputs(EvmWallet, ExpectedRegisterMessage("a", 2))}

Malformed(r) ==
    IF r.wallet.wallet_type = "Evm"
    THEN r.signature.len # 65 \/ ~IsHex40(StripPrefix0x(r.wallet.chain_address))
    ELSE r.wallet.public_key.len # 32 \/ r.signature.len # 64

\* every entrypoint that is given a malformed key, signature or address
\* commits nothing
C27_EntrypointsAbort ==
    /\ \A r \in MalformedRegistrations, caller \in Callers :
           Malformed(r) => Rejected(RegisterCall(caller, r))
    /\ \A path \in KnownPaths :
           \A w \in WalletsOf(path), caller \in Callers :
               \A sig \in WrongLength(SignAs(w, ApprovalMessage(path, SwapOp))) :
                   LET proof == [message |-> ApprovalMessage(path, SwapOp),
                                 signature |-> sig,
                                 signer |-> w.chain_address]
                   IN  /\ Rejected(AddCall(caller, path, SwapOp, proof))
                       /\ \A id \in AllOpIds :
                              Rejected(RemoveCall(caller, path, id, proof))

\* C27: the Near and Solana verifiers return false when the public key is
\* not 32 bytes or the signature is not 64 bytes, and the EVM verifier when
\* the signature is not 65 bytes or the address, after an optional 0x
\* prefix, is not 40 hex characters decoding to 20 bytes (the same bytes
\* with and without the prefix); the calling entrypoint then aborts with
\* no state change.
C27_FailsClosed ==
    C27_Ed25519Closed /\ C27_EvmClosed /\ C27_EntrypointsAbort

\* the relayer is registered and alice.near is a wallet of "a": with a
\* 64-byte signature by alice.near the relayer's add_allowed_operation and
\* register_wallet are accepted, with the same signature one byte longer
\* they are rejected
C27_Witness ==
    /\ RelayerAccount \in contract.tee_relayers
    /\ "a" \in KnownPaths
    /\ NearWallet \in WalletsOf("a")
    /\ "alice.near:2" \notin contract.used_nonces
    /\ LET m == ApprovalMessage("a", SwapOp)
           good == Proof(NearWallet, m, "alice.near")
           long == [good EXCEPT !.signature.len = Ed25519SigLen + 1]
           rm == ExpectedRegisterMessage("a", 2)
           reg == [derivation_path |-> "a", wallet |-> NearWallet,
                   nonce |-> 2, message |-> rm,
                   signature |-> SignAs(NearWallet, rm)]
       IN  /\ AddCall(RelayerAccount, "a", SwapOp, good).ok
           /\ Rejected(AddCall(RelayerAccount, "a", SwapOp, long))
           /\ RegisterCall(RelayerAccount, reg).ok
           /\ Rejected(RegisterCall(RelayerAccount,
                                    [reg EXCEPT !.signature.len = @ + 1]))
           /\ Rejected(RegisterCall(RelayerAccount,
                                    [reg EXCEPT !.wallet.public_key.len
                                                    = @ - 1]))

(***************************************************************************)
(* The arguments of the recovery call                                      *)
(***************************************************************************)
\* last bytes of a 65-byte signature: the plain and the legacy recovery
\* ids, and values past them
VInputs == {0, 1, 2, 3, 4, 26, 27, 28, 29, 30, 31, 255}

\* the EVM wallet's 65-byte signatures over a message, with any last byte
EvmSignatures(message) ==
    {[SignAs(EvmWallet, message) EXCEPT !.v = v] : v \in VInputs}

\* the register_wallet call for the EVM wallet is made by a registered
\* relayer with an unused pair, so that it reaches the verifier
ReachesVerifier(nonce) ==
    /\ RelayerAccount \in contract.tee_relayers
    /\ ColonKey(EvmWallet.chain_address, ToString(nonce))
           \notin contract.used_nonces

\* C28: for every 65-byte EVM signature the recovery call is given the
\* first 64 bytes as its signature argument, and the recovery id v - 27
\* when the last byte v is at least 27 and v otherwise.
C28_RecoveryArguments ==
    \A path \in Paths, nonce \in NonceInputs :
        LET m == ExpectedRegisterMessage(path, nonce)
        IN  ReachesVerifier(nonce)
            => \A sig \in EvmSignatures(m) :
                   LET hash == keccak256(create_eth_signed_message(m))
                       call == EcrecoverCall(hash, sig)
                   IN  /\ sig.len = 65
                       /\ call.signature = [sig EXCEPT !.len = 64]
                       /\ call.v = IF sig.v >= 27 THEN sig.v - 27
                                   ELSE sig.v
                       /\ sig.v \in {27, 28} => call.v \in {0, 1}

====
